---- MODULE Spec2Model ----
(***************************************************************************)
(* Deployment orchestration of devops-unisatc-a3.                          *)
(*                                                                         *)
(*  - the retry helpers of the end-to-end verifier (tests/e2e/helpers.ts)  *)
(*    and the scenarios that use them (article / author suites);           *)
(*  - the Terraform configuration (terraform/*.tf) as reconciled by        *)
(*    `terraform apply` / `terraform destroy`, and the resource-import     *)
(*    script (scripts/import-existing-resources.sh).                       *)
(*                                                                         *)
(* Spec   : the verifier (helpers and scenarios).                          *)
(* SpecTf : the infrastructure reconciler.                                 *)
(***************************************************************************)
EXTENDS Integers, Sequences, FiniteSets, TLC

\* ---------------------------------------------------------------- bounds
\* largest maxRetries argument explored for a direct helper call (the default
\* of the source, DefaultMaxRetries, is explored as well)
MaxRetriesBound == 3
\* number of distinct response bodies / thrown errors the server may produce
NumBodies == 2
NumErrors == 2
\* largest number of resources that exist in the provider before the first run
MaxPreexisting == 1
\* largest desired_count an operator writes into terraform.tfvars
MaxDesiredCount == 2
\* removals the provider answers with an error in one history
MaxRemovalFailures == 1
\* polls of the webServer url that fit into its timeout
ProbeSlots == 3
\* runs of the address resolver (terraform refresh) in one history
MaxPolls == 3
\* secrets left out of or empty in one terraform.tfvars
MaxUnset == 1
\* tests taken from each spec file, in declaration order
SuiteLen == 3
\* pushes to main in one history
MaxPushes == 3
\* requests with an Authorization header sent by one suite
MaxSent == 3

\* ------------------------------------------------------ program constants
\* helpers.ts: default value of the maxRetries parameter
DefaultMaxRetries == 5
\* helpers.ts: `let delay = 1000` in adminLogin
LoginBaseDelay == 1000
\* helpers.ts: `let delay = 500` in getResourceWithRetry / updateResourceWithRetry
ResourceBaseDelay == 500
\* helpers.ts: default value of initialDelay in retryWithBackoff
DefaultInitialDelay == 500

VARIABLES
  \* ---- one call of a retry helper (helpers.ts)
  helper,        \* which helper is executing
  maxRetries,    \* its maxRetries argument
  shouldRetry,   \* retryWithBackoff: the shouldRetry predicate passed in
  initialDelay,  \* retryWithBackoff: its initialDelay argument (else the base delay)
  attempt,       \* loop variable `attempt`
  delay,         \* local `delay`
  lastError,     \* retryWithBackoff: local `lastError` (0 = null)
  resps,         \* responses received so far, one per request sent
  slept,         \* setTimeout delays awaited so far
  rpc,           \* "idle" | "loop" | "returned" | "thrown"
  result,        \* value returned (body of the response), 0 if none
  thrown,        \* error thrown by the helper
  \* ---- one scenario of a suite (article.spec.ts / author.spec.ts)
  suite, scenario, spc, accessed, outcome, caller,
  published,     \* the article created by createAndPublishArticle is published
  \* ---- Terraform reconciliation
  tfvars,        \* terraform.tfvars: the input variables
  provider,      \* resources that exist in the provider (AWS)
  svcCount,      \* desired_count of the ECS service in the provider (0: none)
  tfstate,       \* resources bound in terraform.tfstate
  tfPhase,       \* "idle" | "importing" | "applying" | "destroying"
  plan,          \* apply: resources with a pending action of the plan
  mutations,     \* resources created, updated or removed in the current run
  tfFailed,      \* resources whose operation failed in the current run
  prevRun,       \* what ended last: "none" | "import" | "apply" | "destroy" | "edit"
  lastExit,      \* exit code of the run that ended last
  svcWritten,    \* desired_count last written to the service by an apply (0: none)
  impPc,         \* import script: index of the next safe_import of the sequence
  scheduled,     \* secrets whose deletion is scheduled (name still reserved)
  removeTries,   \* destroy: removal attempts made on each resource in this run
  ran,           \* commands executed by the apply run that was started last
  faultsLeft,    \* removals the provider will still answer with an error
  \* ---- release gate: the Playwright run (playwright.config.ts)
  genv,          \* process.env: CI and BASE_URL
  gate,          \* "WAITING_FOR_HEALTH" | "RUNNING_TESTS" | "PASSED" | "FAILED" |
                 \* "TIMEOUT" | "ERROR"
  ws,            \* webServer: "check" | "polling" | "ready"
  elapsed,       \* webServer: ms waited for the url so far
  probed,        \* url the webServer probe was sent to that succeeded
  requested,     \* base url the test requests are sent to
  nextTest,      \* index of the next declared test to start
  running,       \* indices of the tests a worker is executing
  hookFailedNow, \* the beforeAll hook failed in the current attempt
  tries,         \* retries already made of the running test
  results,       \* outcome of each declared test
  executed,      \* tests whose body was entered
  skipSuites,    \* suites whose remaining tests are skipped
  hookDone,      \* suite whose beforeAll ran in the current worker
  \* ---- address resolver (data "external" "ecs_task_ip" of main.tf)
  task,          \* the service's task in the provider
  rsPc,          \* "idle" | "list" | "describe" | "eni" | "exited"
  TASK_ARN, ENI_ID, PUBLIC_IP,
  rsOut,         \* JSON printed on stdout
  rsExit,        \* exit code
  awsCalls,      \* aws CLI calls of this run: operation, fault, what it was asked about
  polls,         \* resolver runs completed
  outputs,       \* the outputs task_public_ip and service_url as last evaluated
  \* ---- one run of an operational script, command by command
  shScript,      \* "none" | "test-terraform-local" | "destroy-infrastructure"
  shArgv,        \* its arguments
  shPc,          \* "idle" | "init" | "plan" | "prompt" | "apply" | "output" |
                 \* "destroy" | "cleanup" | "exited"
  AUTO_APPROVE,  \* destroy-infrastructure.sh: its variable AUTO_APPROVE
  shReplies,     \* what the operator typed at each `read -p`
  shRan,         \* terraform commands invoked: command and exit status
  shExit,        \* exit code of the script
  shFiles,       \* local files present in terraform/
  shFiles0,      \* local files present when the script started
  \* ---- one run of scripts/create-demo-prs.sh
  withTrap,      \* the version of the script that installs cleanup_and_return
  demoPc,        \* "start" | "failing" | "passing" | "pushing" | "returning" |
                 \* "summary" | "ended"
  CURRENT_BRANCH, \* the branch recorded at the start
  branch,        \* the branch that is checked out
  trapSet,       \* trap cleanup_and_return EXIT INT TERM is in force
  status0,       \* the status with which the script began to terminate
  demoExit,      \* exit code of the script
  lastReturn,    \* last `git checkout "$CURRENT_BRANCH"`: "none" | "ok" | "failed"
  dirty,         \* tracked files differ from HEAD when the script starts
  refs,          \* per local branch: the commits it contains ({}: no such branch)
  refs0,         \* refs when the script started
  gitLog,        \* git commands run that fetch, push, or create, move or delete a branch
  signalled,     \* the script was ended by SIGINT or SIGTERM
  \* ---- terraform invocations against one environment from several checkouts
  invocation,    \* per invocation: working directory, command, position, the
                 \* state it holds in memory, creates that failed, exit code
  statefile,     \* per checkout: the resources bound in its terraform.tfstate
  lock,          \* per checkout: the invocation holding the lock of its state (0: none)
  cloud,         \* resources of the environment that exist in the provider
  \* ---- the workflows triggered by a push to main (README, CI/CD)
  head,          \* number of the commit pushed last (0: the commit before)
  building,      \* commits whose Docker Build run has not pushed yet
  deploying,     \* commits whose Deploy run has not applied yet
  latest,        \* commit whose image the tag `latest` designates
  serviceImage,  \* commit whose image the service runs
  \* ---- the beforeAll hook of a suite (article.spec.ts / author.spec.ts)
  baSuite,       \* the file whose hook runs
  baPc,          \* "idle" | "login" | "token" | "done" | "failed"
  authToken,     \* its variable authToken
  apiToken,      \* its variable apiToken
  tokenResponse, \* what the API-token creation request was answered
  baSent,        \* requests sent with an Authorization header: target and token
  \* ---- terraform.tfvars as generated by test-terraform-local.sh
  generated,     \* the lines node generate-secrets.js prints
  DOCKER_IMAGE,  \* the environment variable DOCKER_IMAGE ("": not set)
  tfvarsFile     \* per variable: the lines of its value in the file written

retryVars == <<helper, maxRetries, shouldRetry, initialDelay, attempt, delay, lastError,
               resps, slept, rpc, result, thrown>>
scenVars  == <<suite, scenario, spc, accessed, outcome, caller, published>>
tfVars    == <<tfvars, provider, svcCount, tfstate, tfPhase, plan, mutations, tfFailed,
               prevRun, lastExit, svcWritten, impPc, scheduled, removeTries, ran, faultsLeft>>
gateVars  == <<genv, gate, ws, elapsed, probed, requested, nextTest, running,
               hookFailedNow, tries, results, executed, skipSuites, hookDone>>
resVars   == <<task, rsPc, TASK_ARN, ENI_ID, PUBLIC_IP, rsOut, rsExit, awsCalls,
               polls, outputs>>
cliVars   == <<shScript, shArgv, shPc, AUTO_APPROVE, shReplies, shRan, shExit, shFiles,
               shFiles0>>
demoVars  == <<withTrap, demoPc, CURRENT_BRANCH, branch, trapSet, status0, demoExit,
               lastReturn,
               dirty, refs, refs0, gitLog, signalled>>
concVars  == <<invocation, statefile, lock, cloud>>
pipeVars  == <<head, building, deploying, latest, serviceImage>>
hookVars  == <<baSuite, baPc, authToken, apiToken, tokenResponse, baSent>>
genVars   == <<generated, DOCKER_IMAGE, tfvarsFile>>
opsVars   == <<cliVars, demoVars, concVars, pipeVars, hookVars, genVars>>
vars      == <<retryVars, scenVars, tfVars, gateVars, resVars, opsVars>>

\* ------------------------------------------------------------ responses
\* An HTTP response is its status and body; status 0 stands for the awaited
\* call rejecting (request.get/post/put or fn() throwing), body = the error.
Bodies == 1..NumBodies
Errors == 1..NumErrors
Responses ==
  {[status |-> 200, body |-> b] : b \in Bodies}
    \cup {[status |-> s, body |-> 0] : s \in {401, 404, 429}}
    \cup {[status |-> 0, body |-> e] : e \in Errors}

\* APIResponse.ok(): status in 200..299
Ok(status) == status >= 200 /\ status <= 299

NoError == [msg |-> "none", n |-> 0, status |-> 0]

Helpers == {"retryWithBackoff", "adminLogin", "getResourceWithRetry",
            "updateResourceWithRetry"}
HttpHelpers == Helpers \ {"retryWithBackoff"}

\* the status on which each HTTP helper `continue`s
TransientStatus(h) == IF h = "adminLogin" THEN 429 ELSE 404

\* the initial value of `delay`
BaseDelay(h) == IF h = "adminLogin" THEN LoginBaseDelay ELSE ResourceBaseDelay

\* shouldRetry predicates passed to retryWithBackoff: the default
\* `() => false`, and one that rejects every non-OK result
ShouldRetry(kind, r) == kind = "notOk" /\ ~Ok(r.status)

\* ------------------------------------------------------- loop primitives
LoopCondOffByOne(a, m) == a <= m + 1
LoopCondStrict(a, m) == a < m
\* `attempt <= maxRetries`
LoopCond(a, m) == a <= m

NextDelayLinear(d) == d + d \div 2
\* `delay *= 2`
NextDelay(d) == d * 2

\* `status === 429 && attempt < maxRetries` (404 for get / update)
ShouldContinue(status, transient, a, m) == status = transient /\ a < m

\* `attempt === maxRetries`
AtCeiling(a, m) == a = m

SleepsBeforeFirst(a) == TRUE
\* `if (attempt > 0)` guarding the sleep at the top of an iteration
SleepsBefore(a) == a > 0

\* --------------------------------------------------------------- helpers
\* values of the arguments explored
RetryArgs == (0..MaxRetriesBound) \cup {DefaultMaxRetries}
InitialDelays == {DefaultInitialDelay, 100}
ShouldRetryKinds == {"never", "notOk"}

\* entry of a helper: the locals as the function prologue sets them
EnterHelper(h, m, d, k, c) ==
  /\ helper' = h
  /\ maxRetries' = m
  /\ shouldRetry' = k
  /\ caller' = c
  /\ initialDelay' = d
  /\ attempt' = 0
  /\ delay' = d   \* `let delay = initialDelay` / `let delay = 1000` / `let delay = 500`
  /\ lastError' = 0
  /\ resps' = <<>>
  /\ slept' = <<>>
  /\ rpc' = "loop"
  /\ result' = 0
  /\ thrown' = NoError

Return(v) ==
  /\ rpc' = "returned"
  /\ result' = v
  /\ UNCHANGED <<thrown, attempt>>

Throw(e) ==
  /\ rpc' = "thrown"
  /\ thrown' = e
  /\ UNCHANGED <<result, attempt>>

Continue ==
  /\ attempt' = attempt + 1
  /\ UNCHANGED <<rpc, result, thrown>>

\* a caller outside the scenarios invokes one helper with some arguments
CallHelper ==
  /\ rpc = "idle"
  /\ spc = "idle"
  /\ \E h \in Helpers, m \in RetryArgs :
       IF h = "retryWithBackoff"
       THEN \E d \in InitialDelays, k \in ShouldRetryKinds :
              EnterHelper(h, m, d, k, "direct")
       ELSE EnterHelper(h, m, BaseDelay(h), "never", "direct")
  /\ UNCHANGED <<suite, scenario, spc, accessed, outcome, published>>
  /\ UNCHANGED <<tfVars, gateVars, resVars, opsVars>>

\* one iteration of `for (let attempt = 0; attempt <= maxRetries; attempt++)`
\* of adminLogin / getResourceWithRetry / updateResourceWithRetry: the sleep at
\* its top, the request, and what follows from the response
HttpIteration(h) ==
  /\ rpc = "loop"
  /\ helper = h
  /\ LoopCond(attempt, maxRetries)
  /\ slept' = IF SleepsBefore(attempt)
              THEN Append(slept, [ms |-> delay, afterReq |-> Len(resps)])
              ELSE slept
  /\ delay' = IF SleepsBefore(attempt) THEN NextDelay(delay) ELSE delay
  /\ \E r \in Responses :
       /\ resps' = Append(resps, r)
       /\ IF r.status = 0
          THEN Throw([msg |-> "rejected", n |-> r.body, status |-> 0])
          ELSE IF Ok(r.status)
          THEN Return(r.body)
          ELSE IF ShouldContinue(r.status, TransientStatus(h), attempt, maxRetries)
          THEN Continue
          ELSE IF AtCeiling(attempt, maxRetries)
          THEN Throw([msg |-> "failedAfter", n |-> maxRetries, status |-> r.status])
          ELSE Continue   \* end of the loop body: attempt++ and the next iteration
  /\ UNCHANGED <<helper, maxRetries, shouldRetry, initialDelay, lastError, caller>>
  /\ UNCHANGED <<suite, scenario, spc, accessed, outcome, published>>
  /\ UNCHANGED <<tfVars, gateVars, resVars, opsVars>>

adminLogin == HttpIteration("adminLogin")

getResourceWithRetry == HttpIteration("getResourceWithRetry")

updateResourceWithRetry == HttpIteration("updateResourceWithRetry")

\* one iteration of the loop of retryWithBackoff: fn(), shouldRetry, the
\* catch clause, and the sleep that ends a failed attempt
retryWithBackoff ==
  /\ rpc = "loop"
  /\ helper = "retryWithBackoff"
  /\ LoopCond(attempt, maxRetries)
  /\ \E r \in Responses :
       /\ resps' = Append(resps, r)
       /\ IF r.status # 0 /\ ~ShouldRetry(shouldRetry, r)
          THEN /\ Return(r.body)
               /\ UNCHANGED <<lastError, slept, delay>>
          ELSE /\ lastError' = IF r.status = 0 THEN r.body ELSE lastError
               /\ slept' = IF attempt < maxRetries
                           THEN Append(slept, [ms |-> delay, afterReq |-> Len(resps) + 1])
                           ELSE slept
               /\ delay' = IF attempt < maxRetries THEN NextDelay(delay) ELSE delay
               /\ Continue
  /\ UNCHANGED <<helper, maxRetries, shouldRetry, initialDelay, caller>>
  /\ UNCHANGED <<suite, scenario, spc, accessed, outcome, published>>
  /\ UNCHANGED <<tfVars, gateVars, resVars, opsVars>>

\* the statement after the loop: `throw lastError || new Error('Max retries
\* exceeded')`, and the `throw new Error('... Max retries exceeded')` of the
\* three HTTP helpers
LoopExit ==
  /\ rpc = "loop"
  /\ ~LoopCond(attempt, maxRetries)
  /\ IF helper = "retryWithBackoff" /\ lastError # 0
     THEN Throw([msg |-> "lastError", n |-> lastError, status |-> 0])
     ELSE Throw([msg |-> "maxRetriesExceeded", n |-> 0, status |-> 0])
  /\ UNCHANGED <<helper, maxRetries, shouldRetry, initialDelay, delay, lastError, resps, slept, caller>>
  /\ UNCHANGED <<suite, scenario, spc, accessed, outcome, published>>
  /\ UNCHANGED <<tfVars, gateVars, resVars, opsVars>>

\* ------------------------------------------------------------- scenarios
\* The read / update / delete tests of the article suite (article.spec.ts)
\* and of the author suite (author.spec.ts). Body 1 is the entity the
\* scenario created or expects; any other body fails an expect().
Suites == {"article", "author"}
Scenarios == {"read", "update", "delete"}
ExpectedBody == 1

Fail ==
  /\ outcome' = "failed"
  /\ spc' = "done"

retryIdle == <<helper, maxRetries, shouldRetry, initialDelay, attempt, delay, lastError,
               resps, slept, rpc, result, thrown, caller>>

\* the test runner starts one test
StartScenario ==
  /\ IF spc = "idle" THEN rpc = "idle" ELSE spc = "done"
  /\ \E su \in Suites, sc \in Scenarios :
       /\ suite' = su
       /\ scenario' = sc
  /\ spc' = "create"
  /\ accessed' = <<>>
  /\ published' = FALSE
  /\ outcome' = "running"
  /\ helper' = "none" /\ maxRetries' = 0 /\ shouldRetry' = "never"
  /\ initialDelay' = 0
  /\ attempt' = 0 /\ delay' = 0 /\ lastError' = 0 /\ resps' = <<>>
  /\ slept' = <<>> /\ rpc' = "idle" /\ result' = 0 /\ thrown' = NoError
  /\ caller' = "scenario"
  /\ UNCHANGED <<tfVars, gateVars, resVars, opsVars>>

\* the POST that creates the entity: `request.post(.../api/authors)` of the
\* author tests, and the first request of createAndPublishArticle
ScenCreate ==
  /\ spc = "create"
  /\ \E r \in Responses :
       IF suite = "article"
       THEN \* `if (!createResponse.ok()) throw`
            IF Ok(r.status)
            THEN /\ spc' = "publish" /\ UNCHANGED outcome
            ELSE Fail
       ELSE IF scenario = "delete"
       THEN \* no check of the create response: only a rejected request or a
            \* body without data (createData.data.id) ends the test here
            IF r.status = 0 \/ ~Ok(r.status)
            THEN Fail
            ELSE /\ spc' = "access" /\ UNCHANGED outcome
       ELSE \* `expect(createResponse.ok()).toBeTruthy()`
            IF Ok(r.status)
            THEN /\ spc' = "access" /\ UNCHANGED outcome
            ELSE Fail
  /\ UNCHANGED <<suite, scenario, accessed, published>>
  /\ UNCHANGED retryIdle
  /\ UNCHANGED <<tfVars, gateVars, resVars, opsVars>>

\* publishArticle, called by createAndPublishArticle: the publish action,
\* then on 404 the GET and (article not yet published) the PUT; a non-OK
\* final response is only logged. Only a rejected request throws. The article
\* is published if it has publishedAt since its creation, the publish action
\* succeeded or the PUT of publishedAt succeeded.
publishArticle ==
  /\ spc = "publish"
  /\ \E p \in Responses, g \in Responses, u \in Responses, hasPublishedAt \in BOOLEAN :
       LET tryGet == ~Ok(p.status) /\ p.status = 404
           tryPut == tryGet /\ Ok(g.status) /\ ~hasPublishedAt
           rejected == \/ p.status = 0
                       \/ tryGet /\ g.status = 0
                       \/ tryPut /\ u.status = 0
       IN /\ published' = \/ hasPublishedAt
                          \/ Ok(p.status)
                          \/ tryPut /\ Ok(u.status)
          /\ IF rejected
             THEN Fail
             ELSE /\ spc' = "access" /\ UNCHANGED outcome
  /\ UNCHANGED <<suite, scenario, accessed>>
  /\ UNCHANGED retryIdle
  /\ UNCHANGED <<tfVars, gateVars, resVars, opsVars>>

\* read / update: the access by id goes through the retry helper
ScenCallHelper ==
  /\ spc = "access"
  /\ scenario \in {"read", "update"}
  /\ LET h == IF scenario = "read" THEN "getResourceWithRetry"
                                   ELSE "updateResourceWithRetry"
     IN EnterHelper(h, DefaultMaxRetries, BaseDelay(h), "never", "scenario")
  /\ spc' = "inHelper"
  /\ UNCHANGED <<suite, scenario, accessed, outcome, published>>
  /\ UNCHANGED <<tfVars, gateVars, resVars, opsVars>>

\* the helper has returned or thrown: the expect()s on the data
ScenAfterHelper ==
  /\ spc = "inHelper"
  /\ rpc \in {"returned", "thrown"}
  /\ spc' = "done"
  /\ outcome' = IF rpc = "returned" /\ result = ExpectedBody
                THEN "passed" ELSE "failed"
  /\ UNCHANGED <<suite, scenario, accessed, published>>
  /\ UNCHANGED retryIdle
  /\ UNCHANGED <<tfVars, gateVars, resVars, opsVars>>

\* delete: `request.delete(...)` and `expect(response.ok()).toBeTruthy()`
ScenDelete ==
  /\ spc = "access"
  /\ scenario = "delete"
  /\ \E r \in Responses :
       /\ accessed' = Append(accessed, r.status)
       /\ IF Ok(r.status)
          THEN /\ spc' = "verify" /\ UNCHANGED outcome
          ELSE Fail
  /\ UNCHANGED <<suite, scenario, published>>
  /\ UNCHANGED retryIdle
  /\ UNCHANGED <<tfVars, gateVars, resVars, opsVars>>

\* delete: the GET that follows and `expect(getResponse.status()).toBe(404)`
ScenVerifyDeleted ==
  /\ spc = "verify"
  /\ \E r \in Responses :
       /\ spc' = "done"
       /\ outcome' = IF r.status = 404 THEN "passed" ELSE "failed"
  /\ UNCHANGED <<suite, scenario, accessed, published>>
  /\ UNCHANGED retryIdle
  /\ UNCHANGED <<tfVars, gateVars, resVars, opsVars>>

\* ------------------------------------------------------------- Terraform
\* Resource addresses of terraform/ecs.tf. A secret stands for the
\* aws_secretsmanager_secret together with its aws_secretsmanager_secret_version,
\* the execution role for the role together with its aws_iam_role_policy.
Cluster       == "aws_ecs_cluster.main"
LogGroup      == "aws_cloudwatch_log_group.strapi"
TaskDef       == "aws_ecs_task_definition.strapi"
Service       == "aws_ecs_service.strapi"
Secrets       == {"aws_secretsmanager_secret.app_keys",
                  "aws_secretsmanager_secret.admin_jwt_secret",
                  "aws_secretsmanager_secret.api_token_salt",
                  "aws_secretsmanager_secret.transfer_token_salt"}
\* referenced by ecs.tf, declared in a file of the configuration outside src/
SecurityGroup == "aws_security_group.ecs_tasks"
RoleExecution == "aws_iam_role.ecs_task_execution"
RoleTask      == "aws_iam_role.ecs_task"

Resources == {Cluster, LogGroup, TaskDef, Service, SecurityGroup,
              RoleExecution, RoleTask} \cup Secrets

\* resources created under a deterministic name, which a create of the same
\* name conflicts with (registering a task definition adds a revision)
Named == Resources \ {TaskDef}

DepsNoCluster(r) ==
  IF r = TaskDef THEN {RoleExecution, RoleTask, LogGroup} \cup Secrets
  ELSE IF r = Service THEN {TaskDef, SecurityGroup}
  ELSE {}
\* the references of each resource block to other resources
Deps(r) ==
  IF r = TaskDef THEN {RoleExecution, RoleTask, LogGroup} \cup Secrets
  ELSE IF r = Service THEN {Cluster, TaskDef, SecurityGroup}
  ELSE {}

Dependents(r) == {d \in Resources : r \in Deps(d)}

\* the secret variables of variables.tf
SecretVars == {"app_keys", "admin_jwt_secret", "api_token_salt",
               "transfer_token_salt", "jwt_secret"}

\* a line of terraform.tfvars for a variable: none, `name = ""`, `name = "..."`
Forms == {"absent", "empty", "set"}

\* terraform.tfvars files in which at most MaxUnset secrets are not set
SecretLines ==
  {f \in [SecretVars -> Forms] :
     Cardinality({k \in SecretVars : f[k] # "set"}) <= MaxUnset}

AllSet == [k \in SecretVars |-> "set"]

\* the variables have no default and a validation `length(var.x) > 0`:
\* docker_image and the five secrets must be given and non-empty;
\* desired_count has a type and a default, no validation
ValidVars(v) ==
  /\ v.docker_image # ""
  /\ \A k \in SecretVars : v.secrets[k] = "set"

DesiredCounts == 1..MaxDesiredCount
DockerImages == {"", "user/devops-strapi:latest"}

\* the service is tracked and its desired_count differs from the variable
ServiceDrift ==
  /\ Service \in tfstate
  /\ svcCount # tfvars.desired_count

PlanRecreatesTaskDef == (Resources \ tfstate) \cup {TaskDef}
\* what `terraform plan` proposes: create what is not tracked, update the
\* service in place if its desired_count drifted
PlanOf ==
  (Resources \ tfstate) \cup (IF ServiceDrift THEN {Service} ELSE {})

\* this run can now act on r: its dependencies are tracked, have no pending
\* action and did not fail
Ready(r) ==
  /\ Deps(r) \subseteq tfstate
  /\ Deps(r) \cap plan = {}
  /\ Deps(r) \cap tfFailed = {}

\* the operator rewrites desired_count in terraform.tfvars between two runs
EditTfvars ==
  /\ tfPhase = "idle"
  /\ \E c \in DesiredCounts \ {tfvars.desired_count} :
       tfvars' = [tfvars EXCEPT !.desired_count = c]
  /\ prevRun' = "edit"
  /\ UNCHANGED <<provider, svcCount, tfstate, tfPhase, plan, mutations, tfFailed,
                 lastExit, svcWritten, impPc, scheduled, removeTries>>
  /\ UNCHANGED <<retryVars, scenVars, gateVars, resVars, ran, faultsLeft, opsVars>>

\* ---- scripts/test-terraform-local.sh
\* "Validate required variables": a secret is missing if no line of
\* terraform.tfvars starts with its name, or if the second '"'-separated
\* field of that line is empty
MissingVarsAbsentOnly(v) == {k \in SecretVars : v.secrets[k] = "absent"}
MissingVars(v) == {k \in SecretVars : v.secrets[k] \in {"absent", "empty"}}

\* ---- scripts/test-terraform-local.sh apply: its validation of
\* terraform.tfvars, then terraform init, terraform plan and terraform apply
StartApply ==
  /\ tfPhase = "idle"
  /\ tfFailed' = {}
  /\ mutations' = 0
  /\ removeTries' = [r \in Resources |-> 0]
  /\ IF MissingVars(tfvars) # {}
     THEN \* "Missing required variables in terraform.tfvars", exit 1
          /\ ran' = <<>>
          /\ tfPhase' = "idle"
          /\ plan' = {}
          /\ prevRun' = "apply"
          /\ lastExit' = 1
     ELSE IF ~ValidVars(tfvars)
     THEN \* a variable fails its validation: terraform plan ends with an
          \* error before any provider call, and `set -e` ends the script
          /\ ran' = <<"terraform init", "terraform plan">>
          /\ tfPhase' = "idle"
          /\ plan' = {}
          /\ prevRun' = "apply"
          /\ lastExit' = 1
     ELSE /\ ran' = <<"terraform init", "terraform plan", "terraform apply">>
          /\ tfPhase' = "applying"
          /\ plan' = PlanOf
          /\ UNCHANGED <<prevRun, lastExit>>
  /\ UNCHANGED <<tfvars, provider, svcCount, tfstate, svcWritten, impPc, scheduled,
                 faultsLeft>>
  /\ UNCHANGED <<retryVars, scenVars, gateVars, resVars, opsVars>>

\* the provider refuses a create under a name it already holds: the resource
\* exists untracked ("already exists"), or it is a secret whose deletion is
\* scheduled ("already scheduled for deletion")
NameTaken(r) ==
  \/ r \in provider /\ r \notin tfstate /\ r \in Named
  \/ r \in scheduled

\* apply creates (or replaces) one resource of the plan whose dependencies are
\* in place
ApplyCreate ==
  /\ tfPhase = "applying"
  /\ \E r \in plan :
       /\ ~(r = Service /\ Service \in tfstate)
       /\ Ready(r)
       /\ plan' = plan \ {r}
       /\ IF NameTaken(r)
          THEN /\ tfFailed' = tfFailed \cup {r}
               /\ UNCHANGED <<provider, tfstate, svcCount, svcWritten, mutations>>
          ELSE /\ provider' = provider \cup {r}
               /\ tfstate' = tfstate \cup {r}
               /\ svcCount' = IF r = Service THEN tfvars.desired_count ELSE svcCount
               /\ svcWritten' = IF r = Service THEN tfvars.desired_count ELSE svcWritten
               /\ mutations' = mutations + 1
               /\ UNCHANGED tfFailed
  /\ UNCHANGED <<tfvars, tfPhase, prevRun, lastExit, impPc, scheduled, removeTries>>
  /\ UNCHANGED <<retryVars, scenVars, gateVars, resVars, ran, faultsLeft, opsVars>>

\* apply updates the tracked service in place: desired_count = var.desired_count
ApplyUpdate ==
  /\ tfPhase = "applying"
  /\ Service \in plan
  /\ Service \in tfstate
  /\ Ready(Service)
  /\ plan' = plan \ {Service}
  /\ svcCount' = tfvars.desired_count
  /\ svcWritten' = tfvars.desired_count
  /\ mutations' = mutations + 1
  /\ UNCHANGED <<tfvars, provider, tfstate, tfPhase, tfFailed, prevRun, lastExit, impPc,
                 scheduled, removeTries>>
  /\ UNCHANGED <<retryVars, scenVars, gateVars, resVars, ran, faultsLeft, opsVars>>

\* nothing of the plan is left that this run can act on
ApplyFinish ==
  /\ tfPhase = "applying"
  /\ \A r \in plan : ~Ready(r)
  /\ tfPhase' = "idle"
  /\ prevRun' = "apply"
  /\ lastExit' = IF plan = {} /\ tfFailed = {} THEN 0 ELSE 1
  /\ UNCHANGED <<tfvars, provider, svcCount, tfstate, plan, mutations, tfFailed,
                 svcWritten, impPc, scheduled, removeTries>>
  /\ UNCHANGED <<retryVars, scenVars, gateVars, resVars, ran, faultsLeft, opsVars>>

\* ---- scripts/import-existing-resources.sh
\* the safe_import calls of the script, in the order it makes them (the
\* cluster and the task definition are not among them)
ImportSequence ==
  << LogGroup,
     "aws_secretsmanager_secret.app_keys",
     "aws_secretsmanager_secret.admin_jwt_secret",
     "aws_secretsmanager_secret.api_token_salt",
     "aws_secretsmanager_secret.transfer_token_salt",
     SecurityGroup, RoleExecution, RoleTask, Service >>

\* imports made only if an `aws ... describe-*` lookup finds the resource
LookedUp == {SecurityGroup, Service}

\* `set -e`: a command that returns non-zero ends the script
ErrExit == TRUE

StartImport ==
  /\ tfPhase = "idle"
  /\ tfPhase' = "importing"
  /\ impPc' = 1
  /\ tfFailed' = {}
  /\ mutations' = 0
  /\ removeTries' = [r \in Resources |-> 0]
  /\ UNCHANGED <<tfvars, provider, svcCount, tfstate, plan, prevRun, lastExit, svcWritten,
                 scheduled>>
  /\ UNCHANGED <<retryVars, scenVars, gateVars, resVars, ran, faultsLeft, opsVars>>

AlreadyInStateNever(r) == FALSE
\* `terraform state show "$resource"` succeeds
AlreadyInState(r) == r \in tfstate

\* `terraform import` binds an existing resource that the state does not
\* hold yet ("Resource already managed by Terraform" otherwise)
ImportSucceeds(r) == r \in provider /\ r \notin tfstate

\* the next call of the sequence: the lookup (if any) and safe_import
safe_import ==
  /\ tfPhase = "importing"
  /\ impPc <= Len(ImportSequence)
  /\ LET r == ImportSequence[impPc]
     IN IF r \in LookedUp /\ r \notin provider
        THEN \* "not found" / "doesn't exist yet": no safe_import call
             /\ impPc' = impPc + 1
             /\ UNCHANGED <<tfstate, tfPhase, tfFailed, prevRun, lastExit>>
        ELSE IF AlreadyInState(r)
        THEN \* already in state, return 0
             /\ impPc' = impPc + 1
             /\ UNCHANGED <<tfstate, tfPhase, tfFailed, prevRun, lastExit>>
        ELSE IF ImportSucceeds(r)
        THEN \* `terraform import` binds the resource, return 0
             /\ tfstate' = tfstate \cup {r}
             /\ impPc' = impPc + 1
             /\ UNCHANGED <<tfPhase, tfFailed, prevRun, lastExit>>
        ELSE \* `terraform import` fails, return 1
             /\ tfFailed' = tfFailed \cup {r}
             /\ UNCHANGED tfstate
             /\ IF ErrExit
                THEN /\ tfPhase' = "idle"
                     /\ prevRun' = "import"
                     /\ lastExit' = 1
                     /\ UNCHANGED impPc
                ELSE /\ impPc' = impPc + 1
                     /\ UNCHANGED <<tfPhase, prevRun, lastExit>>
  /\ UNCHANGED <<tfvars, provider, svcCount, plan, mutations, svcWritten, scheduled,
                 removeTries>>
  /\ UNCHANGED <<retryVars, scenVars, gateVars, resVars, ran, faultsLeft, opsVars>>

\* "Import process completed!" and `terraform state list`
ImportDone ==
  /\ tfPhase = "importing"
  /\ impPc > Len(ImportSequence)
  /\ tfPhase' = "idle"
  /\ prevRun' = "import"
  /\ lastExit' = 0
  /\ UNCHANGED <<tfvars, provider, svcCount, tfstate, plan, mutations, tfFailed,
                 svcWritten, impPc, scheduled, removeTries>>
  /\ UNCHANGED <<retryVars, scenVars, gateVars, resVars, ran, faultsLeft, opsVars>>

\* ---- scripts/destroy-infrastructure.sh
\* the confirmation (`--auto-approve` or typing "yes"), then terraform init
\* and `terraform destroy -var-file=terraform.tfvars`
StartDestroy ==
  /\ tfPhase = "idle"
  /\ \E confirmed \in BOOLEAN :
       IF ~confirmed
       THEN \* "Cancelled": nothing is run
            UNCHANGED tfVars
       ELSE /\ tfFailed' = {}
            /\ mutations' = 0
            /\ plan' = {}
            /\ removeTries' = [r \in Resources |-> 0]
            /\ IF ValidVars(tfvars)
               THEN /\ tfPhase' = "destroying"
                    /\ UNCHANGED <<prevRun, lastExit>>
               ELSE /\ tfPhase' = "idle"
                    /\ prevRun' = "destroy"
                    /\ lastExit' = 1
            /\ UNCHANGED <<tfvars, provider, svcCount, tfstate, svcWritten, impPc,
                           scheduled, ran, faultsLeft>>
  /\ UNCHANGED <<retryVars, scenVars, gateVars, resVars, opsVars>>

\* r can be removed: nothing tracked refers to it any more
Removable(r) == Dependents(r) \cap tfstate = {}

\* the secrets declare no recovery_window_in_days: deleting one schedules its
\* deletion and keeps its name reserved
SchedulesDeletion(r) == r \in Secrets

\* a resource is attempted once in a run: after an error it stays in state
\* and the run goes on with the resources independent of it
StillToRemove(r) == r \in tfstate /\ r \notin tfFailed

\* destroy removes one tracked resource, or the provider answers the removal
\* with an error
DestroyStep ==
  /\ tfPhase = "destroying"
  /\ \E r \in Resources, ok \in BOOLEAN :
       /\ StillToRemove(r)
       /\ Removable(r)
       /\ removeTries' = [removeTries EXCEPT ![r] = @ + 1]
       /\ IF ok
          THEN /\ tfstate' = tfstate \ {r}
               /\ provider' = provider \ {r}
               /\ svcCount' = IF r = Service THEN 0 ELSE svcCount
               /\ scheduled' = IF SchedulesDeletion(r) THEN scheduled \cup {r}
                                                        ELSE scheduled
               /\ mutations' = mutations + 1
               /\ UNCHANGED tfFailed
               /\ UNCHANGED faultsLeft
          ELSE /\ faultsLeft > 0
               /\ faultsLeft' = faultsLeft - 1
               /\ tfFailed' = tfFailed \cup {r}
               /\ UNCHANGED <<tfstate, provider, svcCount, scheduled, mutations>>
  /\ UNCHANGED <<tfvars, tfPhase, plan, prevRun, lastExit, svcWritten, impPc>>
  /\ UNCHANGED <<retryVars, scenVars, gateVars, resVars, ran, opsVars>>

\* terraform destroy returns: "Infrastructure destruction completed!" and the
\* clean-up of the local files if everything was removed, else (`set -e`) the
\* script ends with terraform's exit code
DestroyFinish ==
  /\ tfPhase = "destroying"
  /\ \A r \in Resources : ~(StillToRemove(r) /\ Removable(r))
  /\ tfPhase' = "idle"
  /\ prevRun' = "destroy"
  /\ lastExit' = IF tfstate = {} THEN 0 ELSE 1
  /\ UNCHANGED <<tfvars, provider, svcCount, tfstate, plan, mutations, tfFailed,
                 svcWritten, impPc, scheduled, removeTries>>
  /\ UNCHANGED <<retryVars, scenVars, gateVars, resVars, ran, faultsLeft, opsVars>>

\* ---------------------------------------------------------- release gate
\* The Playwright run configured by playwright.config.ts: the webServer is
\* waited for, then the declared tests are executed by the workers.
\* An URL is its host and port.
Localhost == [host |-> "localhost", port |-> 1337]
Remote    == [host |-> "203.0.113.10", port |-> 1337]
Unset     == [host |-> "", port |-> 0]

\* values of the BASE_URL environment variable (Unset: not set or empty)
BaseUrls == {Unset, Localhost, Remote}

\* `process.env.BASE_URL || 'http://localhost:1337'`
BaseURL(e) == IF e.BASE_URL = Unset THEN Localhost ELSE e.BASE_URL

\* webServer.url
WebServerUrl == Localhost

\* webServer.timeout
WebServerTimeout == 120 * 1000

\* the url is polled ProbeSlots times within the timeout
ProbeInterval == WebServerTimeout \div ProbeSlots

\* `retries: process.env.CI ? 2 : 0`
Retries(e) == IF e.CI THEN 2 ELSE 0

\* `reuseExistingServer: !process.env.CI`
ReuseExistingServer(e) == ~e.CI

\* `workers: 1`, `fullyParallel: false`
Workers == 1

HasFreeWorkerAlways(busy) == TRUE
HasFreeWorker(busy) == busy < Workers

TimedOutAtOnce(ms) == ms >= 0
TimedOut(ms) == ms >= WebServerTimeout

StopsAtFirstFailure(rs) == \E t \in DOMAIN rs : rs[t] = "failed"
\* the configuration sets no maxFailures and no serial mode: failures do not
\* end the run
MaxFailuresReached(rs) == FALSE

\* the tests declared by the two spec files, in the order the runner takes
\* them: article.spec.ts, then author.spec.ts
ArticleTests == <<"login", "create", "list", "read", "update", "delete", "listAgain">>
AuthorTests  == <<"create", "list", "read", "update", "delete", "relationship">>

\* the first SuiteLen tests of a file
Taken(tests) == SubSeq(tests, 1, IF Len(tests) < SuiteLen THEN Len(tests) ELSE SuiteLen)

Declared ==
  [i \in 1..Len(Taken(ArticleTests)) |-> [suite |-> "article", test |-> ArticleTests[i]]]
  \o [i \in 1..Len(Taken(AuthorTests)) |-> [suite |-> "author", test |-> AuthorTests[i]]]

Tests == 1..Len(Declared)

\* the webServer plugin looks whether the url already answers
WebServerCheck ==
  /\ gate = "WAITING_FOR_HEALTH"
  /\ ws = "check"
  /\ \E up \in BOOLEAN :
       IF up
       THEN IF ReuseExistingServer(genv)
            THEN /\ gate' = "RUNNING_TESTS"
                 /\ ws' = "ready"
                 /\ probed' = WebServerUrl
                 /\ requested' = BaseURL(genv)
            ELSE \* "... is already used, make sure that nothing is running on
                 \* the port/url or set reuseExistingServer:true"
                 /\ gate' = "ERROR"
                 /\ UNCHANGED <<ws, probed, requested>>
       ELSE \* `pnpm start` is launched
            /\ ws' = "polling"
            /\ UNCHANGED <<gate, probed, requested>>
  /\ UNCHANGED <<genv, elapsed, nextTest, running, hookFailedNow, tries, results,
                 executed, skipSuites, hookDone>>
  /\ UNCHANGED <<retryVars, scenVars, tfVars, resVars, opsVars>>

\* one poll of webServer.url while the command is starting
Probe ==
  /\ gate = "WAITING_FOR_HEALTH"
  /\ ws = "polling"
  /\ ~TimedOut(elapsed)
  /\ \E answer \in {"ok", "refused", "exited"} :
       IF answer = "ok"
       THEN /\ gate' = "RUNNING_TESTS"
            /\ ws' = "ready"
            /\ probed' = WebServerUrl
            /\ requested' = BaseURL(genv)
            /\ UNCHANGED elapsed
       ELSE IF answer = "exited"
       THEN \* "Process from config.webServer was not able to start"
            /\ gate' = "ERROR"
            /\ UNCHANGED <<ws, probed, requested, elapsed>>
       ELSE /\ elapsed' = elapsed + ProbeInterval
            /\ UNCHANGED <<gate, ws, probed, requested>>
  /\ UNCHANGED <<genv, nextTest, running, hookFailedNow, tries, results,
                 executed, skipSuites, hookDone>>
  /\ UNCHANGED <<retryVars, scenVars, tfVars, resVars, opsVars>>

\* "Timed out waiting 120000ms from config.webServer"
HealthTimeout ==
  /\ gate = "WAITING_FOR_HEALTH"
  /\ ws = "polling"
  /\ TimedOut(elapsed)
  /\ gate' = "TIMEOUT"
  /\ UNCHANGED <<genv, ws, elapsed, probed, requested, nextTest, running,
                 hookFailedNow, tries, results, executed, skipSuites, hookDone>>
  /\ UNCHANGED <<retryVars, scenVars, tfVars, resVars, opsVars>>

\* a worker takes the next declared test; the suite's beforeAll hook runs
\* first if it has not run in this worker
StartTest ==
  /\ gate = "RUNNING_TESTS"
  /\ nextTest \in Tests
  /\ HasFreeWorker(Cardinality(running))
  /\ ~MaxFailuresReached(results)
  /\ Declared[nextTest].suite \notin skipSuites
  /\ running' = running \cup {nextTest}
  /\ nextTest' = nextTest + 1
  /\ tries' = 0
  /\ results' = [results EXCEPT ![nextTest] = "running"]
  /\ \E hookOk \in BOOLEAN :
       IF hookDone = Declared[nextTest].suite \/ hookOk
       THEN /\ hookDone' = Declared[nextTest].suite
            /\ hookFailedNow' = FALSE
            /\ executed' = executed \cup {nextTest}
       ELSE \* beforeAll threw (adminLogin gave up): the body is not entered
            /\ hookFailedNow' = TRUE
            /\ UNCHANGED <<hookDone, executed>>
  /\ UNCHANGED <<genv, gate, ws, elapsed, probed, requested, skipSuites>>
  /\ UNCHANGED <<retryVars, scenVars, tfVars, resVars, opsVars>>

\* a test of a suite whose beforeAll failed is reported as skipped
SkipTest ==
  /\ gate = "RUNNING_TESTS"
  /\ nextTest \in Tests
  /\ HasFreeWorker(Cardinality(running))
  /\ ~MaxFailuresReached(results)
  /\ Declared[nextTest].suite \in skipSuites
  /\ results' = [results EXCEPT ![nextTest] = "skipped"]
  /\ nextTest' = nextTest + 1
  /\ UNCHANGED <<genv, gate, ws, elapsed, probed, requested, running, hookFailedNow,
                 tries, executed, skipSuites, hookDone>>
  /\ UNCHANGED <<retryVars, scenVars, tfVars, resVars, opsVars>>

\* one attempt of a running test ends: passed; or failed and retried in a new
\* worker (beforeAll runs again); or failed for good
EndAttempt ==
  /\ gate = "RUNNING_TESTS"
  /\ \E t \in running, pass \in BOOLEAN, hookOk \in BOOLEAN :
       IF ~hookFailedNow /\ pass
       THEN /\ results' = [results EXCEPT ![t] = "passed"]
            /\ running' = running \ {t}
            /\ tries' = 0
            /\ UNCHANGED <<hookFailedNow, executed, skipSuites, hookDone>>
       ELSE IF tries < Retries(genv)
       THEN /\ tries' = tries + 1
            /\ hookFailedNow' = ~hookOk
            /\ hookDone' = IF hookOk THEN Declared[t].suite ELSE "none"
            /\ executed' = IF hookOk THEN executed \cup {t} ELSE executed
            /\ UNCHANGED <<results, running, skipSuites>>
       ELSE /\ results' = [results EXCEPT ![t] = "failed"]
            /\ running' = running \ {t}
            /\ tries' = 0
            /\ hookFailedNow' = FALSE
            /\ hookDone' = "none"
            /\ skipSuites' = IF hookFailedNow
                             THEN skipSuites \cup {Declared[t].suite}
                             ELSE skipSuites
            /\ UNCHANGED executed
  /\ UNCHANGED <<genv, gate, ws, elapsed, probed, requested, nextTest>>
  /\ UNCHANGED <<retryVars, scenVars, tfVars, resVars, opsVars>>

\* no test is left: the run ends, exit code 0 only if nothing failed
GateFinish ==
  /\ gate = "RUNNING_TESTS"
  /\ running = {}
  /\ nextTest \notin Tests \/ MaxFailuresReached(results)
  /\ gate' = IF \A t \in Tests : results[t] = "passed" THEN "PASSED" ELSE "FAILED"
  /\ UNCHANGED <<genv, ws, elapsed, probed, requested, nextTest, running,
                 hookFailedNow, tries, results, executed, skipSuites, hookDone>>
  /\ UNCHANGED <<retryVars, scenVars, tfVars, resVars, opsVars>>

\* ------------------------------------------------------ address resolver
\* The program of data "external" "ecs_task_ip" (main.tf): three aws CLI
\* calls, each `2>/dev/null`, the script running without `set -e`.
\* The task of the service goes through its stages on its own.
TaskStages == <<"none", "provisioning", "attached", "addressed">>
Address == "198.51.100.7"

\* a call fails for a reason that will not go away, or answers as asked
Faults == {"none", "denied", "malformed"}

NotReady == {"no_task_running", "eni_not_found", "no_public_ip"}

\* the stdout of `aws ... --output text`: nothing if the call failed, the
\* text None if the --query selected nothing (also in a response that lacks
\* the field), else the value
TextOutput(fault, value) ==
  IF fault = "denied" THEN ""
  ELSE IF fault = "malformed" THEN "None"
  ELSE IF value = "" THEN "None" ELSE value

\* `grep -o '"value": "[^"]*eni-[^"]*"' | head -1 | cut -d'"' -f4` over the
\* attachment details: empty if the call failed or no detail holds an eni id
EniOf(fault, stage) ==
  IF fault = "none" /\ stage \in {"attached", "addressed"} THEN "eni-0a1b" ELSE ""

EmptyOnlyBlank(v) == v = ""
\* `[ -z "$V" ] || [ "$V" = "None" ]`
Empty(v) == v = "" \/ v = "None"

EndsOnFault(fault) == fault # "none"
\* a failing aws call ends the program (`set -e`): not set, so never
EndsProgram(fault) == FALSE

\* nothing on stdout
NoOutput == [public_ip |-> "", status |-> ""]

\* the texts of the two outputs while there is no address
IpNotAvailable ==
  "Task not running or IP not available yet. Run 'terraform refresh' to update."
UrlNotAvailable == <<"Service not available yet. Run 'terraform refresh' to update.">>

\* "http://${...public_ip}:1337": the parts of the interpolated string
Http(host) == <<"http://", host, ":1337">>

\* output "task_public_ip"
task_public_ip(res) ==
  IF res.public_ip # "" THEN res.public_ip ELSE IpNotAvailable

service_url_always(res) == Http(res.public_ip)
\* output "service_url"
service_url(res) ==
  IF res.public_ip # "" THEN Http(res.public_ip) ELSE UrlNotAvailable

\* no apply or refresh has evaluated the outputs yet
NoOutputs == [task_public_ip |-> "", service_url |-> <<>>]

\* `echo '{"public_ip":...,"status":...}'` and the end of the program;
\* terraform evaluates the outputs over the result it has read
Report(ip, status) ==
  /\ rsOut' = [public_ip |-> ip, status |-> status]
  /\ outputs' = [task_public_ip |-> task_public_ip([public_ip |-> ip, status |-> status]),
                 service_url |-> service_url([public_ip |-> ip, status |-> status])]
  /\ rsExit' = 0
  /\ rsPc' = "exited"
  /\ polls' = polls + 1

\* the program ends at the failing command, nothing printed
Abort ==
  /\ rsOut' = NoOutput
  /\ UNCHANGED outputs
  /\ rsExit' = 1
  /\ rsPc' = "exited"
  /\ polls' = polls + 1

\* the task is placed, gets its network interface, its address, and stops
TaskAdvance ==
  /\ \E i \in 1..Len(TaskStages) :
       /\ task = TaskStages[i]
       /\ task' = TaskStages[(i % Len(TaskStages)) + 1]
  /\ UNCHANGED <<rsPc, TASK_ARN, ENI_ID, PUBLIC_IP, rsOut, rsExit, awsCalls, polls, outputs>>
  /\ UNCHANGED <<retryVars, scenVars, tfVars, gateVars, opsVars>>

\* terraform reads the data source: the program starts
ResolverStart ==
  /\ rsPc \in {"idle", "exited"}
  /\ polls < MaxPolls
  /\ rsPc' = "list"
  /\ TASK_ARN' = "" /\ ENI_ID' = "" /\ PUBLIC_IP' = ""
  /\ rsOut' = NoOutput /\ rsExit' = 0
  /\ awsCalls' = <<>>
  /\ UNCHANGED <<task, polls, outputs>>
  /\ UNCHANGED <<retryVars, scenVars, tfVars, gateVars, opsVars>>

\* `aws ecs list-tasks --query 'taskArns[0]' --output text`
ListTasks ==
  /\ rsPc = "list"
  /\ \E fault \in Faults :
       LET arn == TextOutput(fault, IF task = "none" THEN "" ELSE "arn:task/1")
       IN /\ awsCalls' = Append(awsCalls, [op |-> "ecs:ListTasks", fault |-> fault,
                                           saw |-> task])
          /\ TASK_ARN' = arn
          /\ IF EndsProgram(fault)
             THEN Abort
             ELSE IF Empty(arn)
             THEN Report("", "no_task_running")
             ELSE /\ rsPc' = "describe"
                  /\ UNCHANGED <<rsOut, rsExit, polls, outputs>>
  /\ UNCHANGED <<task, ENI_ID, PUBLIC_IP>>
  /\ UNCHANGED <<retryVars, scenVars, tfVars, gateVars, opsVars>>

\* `aws ecs describe-tasks --query 'tasks[0].attachments[0].details'` and the
\* extraction of the eni id
DescribeTasks ==
  /\ rsPc = "describe"
  /\ \E fault \in Faults :
       LET eni == EniOf(fault, task)
       IN /\ awsCalls' = Append(awsCalls, [op |-> "ecs:DescribeTasks", fault |-> fault,
                                           saw |-> task])
          /\ ENI_ID' = eni
          /\ IF EndsProgram(fault)
             THEN Abort
             ELSE IF eni = ""
             THEN Report("", "eni_not_found")
             ELSE /\ rsPc' = "eni"
                  /\ UNCHANGED <<rsOut, rsExit, polls, outputs>>
  /\ UNCHANGED <<task, TASK_ARN, PUBLIC_IP>>
  /\ UNCHANGED <<retryVars, scenVars, tfVars, gateVars, opsVars>>

\* `aws ec2 describe-network-interfaces --query
\* 'NetworkInterfaces[0].Association.PublicIp' --output text`
DescribeNetworkInterfaces ==
  /\ rsPc = "eni"
  /\ \E fault \in Faults :
       LET ip == TextOutput(fault, IF task = "addressed" THEN Address ELSE "")
       IN /\ awsCalls' = Append(awsCalls, [op |-> "ec2:DescribeNetworkInterfaces",
                                           fault |-> fault, saw |-> task])
          /\ PUBLIC_IP' = ip
          /\ IF EndsProgram(fault)
             THEN Abort
             ELSE IF Empty(ip)
             THEN Report("", "no_public_ip")
             ELSE Report(ip, "success")
  /\ UNCHANGED <<task, TASK_ARN, ENI_ID>>
  /\ UNCHANGED <<retryVars, scenVars, tfVars, gateVars, opsVars>>

\* ------------------------------------------------- operational scripts
\* scripts/test-terraform-local.sh and scripts/destroy-infrastructure.sh
\* command by command: each terraform command is one step, its exit status
\* given by terraform.

\* the files terraform keeps in terraform/, which the clean-up removes
LocalFiles == {".terraform/", "terraform.tfstate", "terraform.tfstate.backup",
               ".terraform.lock.hcl"}

\* what the operator types at a `read -p`, character by character
Replies == { <<"y", "e", "s">>, <<"Y", "E", "S">>, <<"y", "e", "s", " ">>,
             <<"y">>, <<"n", "o">>, <<>> }

Argvs == { <<>>, <<"plan">>, <<"apply">>, <<"destroy">>, <<"--auto-approve">>,
           <<"-v", "--auto-approve">> }

\* "$1"
Arg1(argv) == IF Len(argv) >= 1 THEN argv[1] ELSE ""

YesUnanchored(reply) ==
  /\ Len(reply) >= 3
  /\ reply[1] \in {"y", "Y"} /\ reply[2] \in {"e", "E"} /\ reply[3] \in {"s", "S"}
\* [[ $REPLY =~ ^[Yy][Ee][Ss]$ ]]
Yes(reply) ==
  /\ Len(reply) = 3
  /\ reply[1] \in {"y", "Y"} /\ reply[2] \in {"e", "E"} /\ reply[3] \in {"s", "S"}

\* [[ $REPLY =~ ^[Yy]$ ]]
Y(reply) == Len(reply) = 1 /\ reply[1] \in {"y", "Y"}

ContinuesAlways(status) == TRUE
\* `set -e`: the script goes on after a command only if it returned 0
Continues(status) == status = 0

\* files a terraform command leaves in terraform/
Written(cmd) ==
  IF cmd = "init" THEN {".terraform/", ".terraform.lock.hcl"}
  ELSE IF cmd \in {"apply", "destroy"} THEN {"terraform.tfstate", "terraform.tfstate.backup"}
  ELSE {}

AfterNoPrompt(script, argv, cmd) ==
  IF script = "test-terraform-local"
  THEN IF cmd = "init" THEN "plan"
       ELSE IF cmd = "plan" THEN (IF Arg1(argv) = "apply" THEN "apply" ELSE "exited")
       ELSE IF cmd = "apply" THEN "output"
       ELSE "exited"
  ELSE IF cmd = "init" THEN "destroy" ELSE "cleanup"
\* the command the script runs after cmd has returned 0
After(script, argv, cmd) ==
  IF script = "test-terraform-local"
  THEN IF cmd = "init" THEN "plan"
       ELSE IF cmd = "plan" THEN (IF Arg1(argv) = "apply" THEN "prompt" ELSE "exited")
       ELSE IF cmd = "apply" THEN "output"
       ELSE "exited"
  ELSE IF cmd = "init" THEN "destroy" ELSE "cleanup"

Exit(code) == shPc' = "exited" /\ shExit' = code

\* test-terraform-local.sh up to "Determine action": the prerequisite checks,
\* the validation of terraform.tfvars, ACTION="${1:-plan}"
test_terraform_local ==
  /\ shPc \in {"idle", "exited"}
  /\ \E argv \in Argvs, prerequisites \in BOOLEAN :
       /\ shScript' = "test-terraform-local"
       /\ shArgv' = argv
       /\ IF ~prerequisites \/ MissingVars(tfvars) # {}
          THEN Exit(1)
          ELSE IF Arg1(argv) \notin {"", "plan", "apply"}
          THEN \* "Invalid action"
               Exit(1)
          ELSE shPc' = "init" /\ shExit' = 0
  /\ AUTO_APPROVE' = FALSE
  /\ shReplies' = <<>>
  /\ shRan' = <<>>
  /\ shFiles0' = shFiles
  /\ UNCHANGED shFiles
  /\ UNCHANGED <<retryVars, scenVars, tfVars, gateVars, resVars, demoVars, concVars, pipeVars, hookVars, genVars>>

\* destroy-infrastructure.sh up to the confirmation: the prerequisite checks,
\* `--auto-approve` or the typed confirmation
destroy_infrastructure ==
  /\ shPc \in {"idle", "exited"}
  /\ \E argv \in Argvs, prerequisites \in BOOLEAN, reply \in Replies :
       /\ shScript' = "destroy-infrastructure"
       /\ shArgv' = argv
       /\ IF ~prerequisites
          THEN Exit(1) /\ AUTO_APPROVE' = FALSE /\ shReplies' = <<>>
          ELSE IF Arg1(argv) = "--auto-approve"
          THEN shPc' = "init" /\ shExit' = 0 /\ AUTO_APPROVE' = TRUE /\ shReplies' = <<>>
          ELSE /\ AUTO_APPROVE' = FALSE
               /\ shReplies' = <<reply>>
               /\ IF ~Yes(reply)
                  THEN \* "Cancelled"
                       Exit(0)
                  ELSE shPc' = "init" /\ shExit' = 0
  /\ shRan' = <<>>
  /\ shFiles0' = shFiles
  /\ UNCHANGED shFiles
  /\ UNCHANGED <<retryVars, scenVars, tfVars, gateVars, resVars, demoVars, concVars, pipeVars, hookVars, genVars>>

\* the next terraform command of the running script: init, plan, apply,
\* output or destroy; plan, apply and destroy fail on variables that do not
\* pass their validation
Terraform ==
  /\ shPc \in {"init", "plan", "apply", "output", "destroy"}
  /\ \E ok \in BOOLEAN :
       /\ (shPc \in {"plan", "apply", "destroy"} /\ ~ValidVars(tfvars)) => ~ok
       /\ LET status == IF ok THEN 0 ELSE 1
          IN /\ shRan' = Append(shRan, [cmd |-> shPc, status |-> status])
             /\ shFiles' = IF ok THEN shFiles \cup Written(shPc) ELSE shFiles
             /\ IF Continues(status)
                THEN LET next == After(shScript, shArgv, shPc)
                     IN IF next = "exited" THEN Exit(0)
                        ELSE shPc' = next /\ UNCHANGED shExit
                ELSE Exit(status)
  /\ UNCHANGED <<shScript, shArgv, AUTO_APPROVE, shReplies, shFiles0>>
  /\ UNCHANGED <<retryVars, scenVars, tfVars, gateVars, resVars, demoVars, concVars, pipeVars, hookVars, genVars>>

\* test-terraform-local.sh apply: "Do you want to continue? (yes/no)"
ApplyPrompt ==
  /\ shPc = "prompt"
  /\ \E reply \in Replies :
       /\ shReplies' = Append(shReplies, reply)
       /\ IF ~Yes(reply)
          THEN \* "Cancelled"
               Exit(0)
          ELSE shPc' = "apply" /\ UNCHANGED shExit
  /\ UNCHANGED <<shScript, shArgv, AUTO_APPROVE, shRan, shFiles, shFiles0>>
  /\ UNCHANGED <<retryVars, scenVars, tfVars, gateVars, resVars, demoVars, concVars, pipeVars, hookVars, genVars>>

\* destroy-infrastructure.sh after terraform destroy: "Clean up local
\* Terraform files?", rm -rf .terraform/ and rm -f of the state and lock files
CleanUp ==
  /\ shPc = "cleanup"
  /\ \E reply \in Replies :
       LET CLEANUP == IF AUTO_APPROVE THEN TRUE ELSE Y(reply)
       IN /\ shReplies' = IF AUTO_APPROVE THEN shReplies ELSE Append(shReplies, reply)
          /\ shFiles' = IF CLEANUP THEN shFiles \ LocalFiles ELSE shFiles
  /\ Exit(0)
  /\ UNCHANGED <<shScript, shArgv, AUTO_APPROVE, shRan, shFiles0>>
  /\ UNCHANGED <<retryVars, scenVars, tfVars, gateVars, resVars, demoVars, concVars, pipeVars, hookVars, genVars>>

\* -------------------------------------------------------- demo branches
\* scripts/create-demo-prs.sh, in its two versions: with the EXIT/INT/TERM
\* trap cleanup_and_return, and without it. A step is a section of the
\* script; each git command of a section succeeds or fails.

FAILING_BRANCH == "demo/pr-failing"
PASSING_BRANCH == "demo/pr-passing"

NeedsReturnNever(original, current) == FALSE
\* cleanup_and_return:
\* [ -n "$CURRENT_BRANCH" ] && [ "$current_branch" != "$CURRENT_BRANCH" ]
NeedsReturn(original, current) == original # "" /\ current # original

\* cleanup_and_return: `exit $exit_code`, whatever its checkout returned
HandlerExit(exit_code, checkout) == exit_code

\* the script terminates with status code while `from` is checked out, the
\* last checkout of the original branch having ended as lr: the trap, if in
\* force, runs cleanup_and_return, whose checkout succeeds or not (ok)
Terminate(code, from, lr, ok) ==
  /\ demoPc' = "ended"
  /\ status0' = code
  /\ IF trapSet /\ NeedsReturn(CURRENT_BRANCH, from)
     THEN /\ branch' = IF ok THEN CURRENT_BRANCH ELSE from
          /\ lastReturn' = IF ok THEN "ok" ELSE "failed"
          /\ demoExit' = HandlerExit(code, IF ok THEN 0 ELSE 1)
     ELSE /\ branch' = from
          /\ lastReturn' = lr
          /\ demoExit' = code

\* an error branch of the script: git checkout "$CURRENT_BRANCH", then exit 1;
\* under `set -e` a failing checkout ends the script with git's status
ErrorBranch(ok, ok2) ==
  IF ok THEN Terminate(1, CURRENT_BRANCH, "ok", ok2)
        ELSE Terminate(128, branch, "failed", ok2)

\* the local branches of the repository considered
Branches == {"main", "master", "feature/x", FAILING_BRANCH, PASSING_BRANCH}

\* the commit the script makes on each demo branch
Commit(b) == IF b = FAILING_BRANCH THEN "failing test" ELSE "comment"

UncommittedNever(d) == FALSE
\* `! git diff-index --quiet HEAD --`
Uncommitted(d) == d

Git(cmd, arg) == [cmd |-> cmd, arg |-> arg]

\* `git branch -D b`
Deleted(rs, b) == [rs EXCEPT ![b] = {}]

\* `git commit` with b checked out
Committed(rs, b) == [rs EXCEPT ![b] = @ \cup {Commit(b)}]

AfterCheckoutStays(target, current) == current
\* the branch checked out after a successful `git checkout target`
AfterCheckout(target, current) == target

\* `git checkout -b b` while from is checked out: b starts at its tip
CreatedFrom(rs, b, from) == [rs EXCEPT ![b] = rs[from]]

\* the expected title in tests/e2e/article.spec.ts on a branch with the
\* commits h: the failing commit replaces 'Test Article' by 'Wrong Title'
Assertion(h) == IF Commit(FAILING_BRANCH) \in h THEN "Wrong Title" ELSE "Test Article"

\* delete_branch_if_exists for both demo branches: the commands it runs
Deletions(rs) ==
  (IF rs[FAILING_BRANCH] # {} THEN <<Git("branch -D", FAILING_BRANCH)>> ELSE <<>>)
  \o (IF rs[PASSING_BRANCH] # {} THEN <<Git("branch -D", PASSING_BRANCH)>> ELSE <<>>)

\* up to the first branch: uncommitted changes (exit 1), "Continue anyway?"
\* declined (exit 0), git fetch, the demo branches of an earlier run deleted,
\* git checkout -b "$FAILING_BRANCH"
DemoStart ==
  /\ demoPc = "start"
  /\ \E reply \in {"y", "n"}, fetched \in BOOLEAN, created \in BOOLEAN, ok \in BOOLEAN :
       LET cleared == Deleted(Deleted(refs, FAILING_BRANCH), PASSING_BRANCH)
       IN
       IF Uncommitted(dirty)
       THEN /\ Terminate(1, branch, lastReturn, ok)
            /\ UNCHANGED <<refs, gitLog>>
       ELSE IF CURRENT_BRANCH \notin {"master", "main"} /\ reply # "y"
       THEN /\ Terminate(0, branch, lastReturn, ok)
            /\ UNCHANGED <<refs, gitLog>>
       ELSE IF ~fetched
       THEN /\ Terminate(128, branch, lastReturn, ok)
            /\ gitLog' = gitLog \o <<Git("fetch", "origin")>>
            /\ UNCHANGED refs
       ELSE IF ~created
       THEN /\ Terminate(128, branch, lastReturn, ok)
            /\ gitLog' = gitLog \o <<Git("fetch", "origin")>> \o Deletions(refs)
            /\ refs' = cleared
       ELSE /\ demoPc' = "failing"
            /\ branch' = FAILING_BRANCH
            /\ gitLog' = gitLog \o <<Git("fetch", "origin")>> \o Deletions(refs)
                                \o <<Git("checkout -b", FAILING_BRANCH)>>
            /\ refs' = CreatedFrom(cleared, FAILING_BRANCH, branch)
            /\ UNCHANGED <<status0, demoExit, lastReturn>>
  /\ UNCHANGED <<withTrap, CURRENT_BRANCH, trapSet, dirty, refs0, signalled>>
  /\ UNCHANGED <<retryVars, scenVars, tfVars, gateVars, resVars, cliVars, concVars, pipeVars, hookVars, genVars>>

\* on the failing branch: the test file is edited, git add, git commit; then
\* git checkout "$CURRENT_BRANCH" and git checkout -b "$PASSING_BRANCH". An
\* error branch, before or after the commit, goes back and deletes the branch
DemoFailingBranch ==
  /\ demoPc = "failing"
  /\ \E way \in {"error branch", "fails", "goes on"}, ok \in BOOLEAN, ok2 \in BOOLEAN,
        created \in BOOLEAN, committed \in BOOLEAN :
       LET made == Committed(refs, branch)
           base == AfterCheckout(CURRENT_BRANCH, branch)
       IN
       IF way = "error branch"
       THEN /\ ErrorBranch(ok, ok2)
            /\ refs' = IF ok THEN Deleted(refs, FAILING_BRANCH)
                       ELSE IF committed THEN made ELSE refs
            /\ gitLog' = gitLog \o (IF committed THEN <<Git("commit", branch)>> ELSE <<>>)
                                \o (IF ok THEN <<Git("branch -D", FAILING_BRANCH)>> ELSE <<>>)
       ELSE IF way = "fails"
       THEN /\ Terminate(1, branch, lastReturn, ok2)
            /\ UNCHANGED <<refs, gitLog>>
       ELSE IF ~ok
       THEN /\ Terminate(128, branch, "failed", ok2)
            /\ refs' = made
            /\ gitLog' = gitLog \o <<Git("commit", branch)>>
       ELSE IF ~created
       THEN /\ Terminate(128, base, "ok", ok2)
            /\ refs' = made
            /\ gitLog' = gitLog \o <<Git("commit", branch)>>
       ELSE /\ demoPc' = "passing"
            /\ branch' = PASSING_BRANCH
            /\ lastReturn' = "ok"
            /\ refs' = CreatedFrom(made, PASSING_BRANCH, base)
            /\ gitLog' = gitLog \o <<Git("commit", branch), Git("checkout -b", PASSING_BRANCH)>>
            /\ UNCHANGED <<status0, demoExit>>
  /\ UNCHANGED <<withTrap, CURRENT_BRANCH, trapSet, dirty, refs0, signalled>>
  /\ UNCHANGED <<retryVars, scenVars, tfVars, gateVars, resVars, cliVars, concVars, pipeVars, hookVars, genVars>>

\* on the passing branch: the comment is added, git add, git commit; the
\* version with the trap goes on if the commit fails
DemoPassingBranch ==
  /\ demoPc = "passing"
  /\ \E way \in {"error branch", "fails", "goes on"}, ok \in BOOLEAN, ok2 \in BOOLEAN,
        committed \in BOOLEAN :
       IF way = "error branch" /\ ~withTrap
       THEN /\ ErrorBranch(ok, ok2)
            /\ refs' = IF ok THEN Deleted(refs, PASSING_BRANCH) ELSE Committed(refs, branch)
            /\ gitLog' = gitLog \o <<Git("commit", branch)>>
                                \o (IF ok THEN <<Git("branch -D", PASSING_BRANCH)>> ELSE <<>>)
       ELSE IF way = "fails"
       THEN /\ Terminate(1, branch, lastReturn, ok2)
            /\ UNCHANGED <<refs, gitLog>>
       ELSE /\ demoPc' = "pushing"
            /\ refs' = IF committed \/ ~withTrap THEN Committed(refs, branch) ELSE refs
            /\ gitLog' = IF committed \/ ~withTrap
                         THEN gitLog \o <<Git("commit", branch)>> ELSE gitLog
            /\ UNCHANGED <<branch, status0, demoExit, lastReturn>>
  /\ UNCHANGED <<withTrap, CURRENT_BRANCH, trapSet, dirty, refs0, signalled>>
  /\ UNCHANGED <<retryVars, scenVars, tfVars, gateVars, resVars, cliVars, concVars, pipeVars, hookVars, genVars>>

\* "Pushing branches to remote": each branch is checked out and pushed; a
\* failing checkout or push is reported and the script goes on
DemoPush ==
  /\ demoPc = "pushing"
  /\ \E ok1 \in BOOLEAN, ok2 \in BOOLEAN :
       /\ branch' = IF ok2 THEN PASSING_BRANCH
                    ELSE IF ok1 THEN FAILING_BRANCH ELSE branch
       /\ gitLog' = gitLog \o (IF ok1 THEN <<Git("push", FAILING_BRANCH)>> ELSE <<>>)
                           \o (IF ok2 THEN <<Git("push", PASSING_BRANCH)>> ELSE <<>>)
  /\ demoPc' = "returning"
  /\ UNCHANGED <<withTrap, CURRENT_BRANCH, trapSet, status0, demoExit, lastReturn>>
  /\ UNCHANGED <<dirty, refs, refs0, signalled>>
  /\ UNCHANGED <<retryVars, scenVars, tfVars, gateVars, resVars, cliVars, concVars, pipeVars, hookVars, genVars>>

\* "Return to original branch": git checkout "$CURRENT_BRANCH"; on success
\* the trap version removes its trap; on failure the version without trap
\* exits 1 and the trap version goes on
DemoReturn ==
  /\ demoPc = "returning"
  /\ \E ok \in BOOLEAN :
       IF ok
       THEN /\ branch' = CURRENT_BRANCH
            /\ lastReturn' = "ok"
            /\ trapSet' = FALSE
            /\ demoPc' = "summary"
            /\ UNCHANGED <<status0, demoExit>>
       ELSE IF withTrap
       THEN /\ lastReturn' = "failed"
            /\ demoPc' = "summary"
            /\ UNCHANGED <<branch, trapSet, status0, demoExit>>
       ELSE /\ Terminate(1, branch, "failed", FALSE)
            /\ UNCHANGED trapSet
  /\ UNCHANGED <<withTrap, CURRENT_BRANCH>>
  /\ UNCHANGED <<dirty, refs, refs0, gitLog, signalled>>
  /\ UNCHANGED <<retryVars, scenVars, tfVars, gateVars, resVars, cliVars, concVars, pipeVars, hookVars, genVars>>

\* the summary is printed and the script reaches its end
DemoSummary ==
  /\ demoPc = "summary"
  /\ \E ok \in BOOLEAN : Terminate(0, branch, lastReturn, ok)
  /\ UNCHANGED <<withTrap, CURRENT_BRANCH, trapSet>>
  /\ UNCHANGED <<dirty, refs, refs0, gitLog, signalled>>
  /\ UNCHANGED <<retryVars, scenVars, tfVars, gateVars, resVars, cliVars, concVars, pipeVars, hookVars, genVars>>

\* SIGINT or SIGTERM: with the trap in force cleanup_and_return runs with the
\* status of the last command in $?; otherwise the signal ends the script
DemoSignal ==
  /\ demoPc \notin {"idle", "ended"}
  /\ \E last \in {0, 130}, ok \in BOOLEAN :
       Terminate(IF trapSet THEN last ELSE 130, branch, lastReturn, ok)
  /\ signalled' = TRUE
  /\ UNCHANGED <<withTrap, CURRENT_BRANCH, trapSet>>
  /\ UNCHANGED <<dirty, refs, refs0, gitLog>>
  /\ UNCHANGED <<retryVars, scenVars, tfVars, gateVars, resVars, cliVars, concVars, pipeVars, hookVars, genVars>>

\* ------------------------------------------------- concurrent invocations
\* terraform apply / terraform destroy started by two operators (or CI runs)
\* against the one environment devops-strapi-production. main.tf configures no
\* backend: the state is the file terraform.tfstate of the working directory,
\* and the lock terraform takes is the lock of that file.

Invocations == {1, 2}

\* working directories holding the configuration: one checkout, another one
Checkouts == {"checkout", "other checkout"}

\* the resources the invocations act on here: those without dependencies
\* whose removal is immediate
Contended == {r \in Named \ Secrets : Deps(r) = {}}

\* what the lock of an invocation in the working directory dir protects: the
\* state file of that directory (local backend)
LockOf(dir) == dir

Holder(dir) == lock[LockOf(dir)]

\* the resources an invocation still has to act on
Pending(i) ==
  LET v == invocation[i]
  IN IF v.cmd = "apply" THEN (Contended \ v.mem) \ v.failed
                        ELSE v.mem \cap Contended

\* terraform apply / destroy starts: it takes the lock of the state and reads
\* the state, or (no -lock-timeout) ends with "Error acquiring the state lock"
Invoke ==
  \E i \in Invocations, cmd \in {"apply", "destroy"} :
    /\ invocation[i].pc = "idle"
    /\ LET dir == invocation[i].dir
       IN IF Holder(dir) = 0
          THEN /\ lock' = [lock EXCEPT ![LockOf(dir)] = i]
               /\ invocation' = [invocation EXCEPT ![i].cmd = cmd, ![i].pc = "running",
                                                   ![i].mem = statefile[dir]]
          ELSE /\ invocation' = [invocation EXCEPT ![i].cmd = cmd, ![i].pc = "refused",
                                                   ![i].exit = 1]
               /\ UNCHANGED lock
    /\ UNCHANGED <<statefile, cloud>>
    /\ UNCHANGED <<retryVars, scenVars, tfVars, gateVars, resVars, cliVars, demoVars, pipeVars, hookVars, genVars>>

\* a running invocation creates (apply) or removes (destroy) one resource; a
\* create of a resource that exists untracked fails ("already exists")
Mutate ==
  \E i \in Invocations :
    /\ invocation[i].pc = "running"
    /\ \E r \in Pending(i) :
         IF invocation[i].cmd = "destroy"
         THEN /\ cloud' = cloud \ {r}
              /\ invocation' = [invocation EXCEPT ![i].mem = @ \ {r}]
         ELSE IF r \in cloud
         THEN /\ invocation' = [invocation EXCEPT ![i].failed = @ \cup {r}]
              /\ UNCHANGED cloud
         ELSE /\ cloud' = cloud \cup {r}
              /\ invocation' = [invocation EXCEPT ![i].mem = @ \cup {r}]
    /\ UNCHANGED <<statefile, lock>>
    /\ UNCHANGED <<retryVars, scenVars, tfVars, gateVars, resVars, cliVars, demoVars, pipeVars, hookVars, genVars>>

\* the invocation writes its state to terraform.tfstate, releases the lock
\* and exits
Finish ==
  \E i \in Invocations :
    /\ invocation[i].pc = "running"
    /\ Pending(i) = {}
    /\ LET dir == invocation[i].dir
       IN /\ statefile' = [statefile EXCEPT ![dir] = invocation[i].mem]
          /\ lock' = [lock EXCEPT ![LockOf(dir)] = 0]
    /\ invocation' = [invocation EXCEPT
         ![i].pc = "done",
         ![i].exit = IF invocation[i].failed = {} THEN 0 ELSE 1]
    /\ UNCHANGED cloud
    /\ UNCHANGED <<retryVars, scenVars, tfVars, gateVars, resVars, cliVars, demoVars, pipeVars, hookVars, genVars>>

\* the operator starts over in the same working directory
Again ==
  \E i \in Invocations :
    /\ invocation[i].pc \in {"done", "refused"}
    /\ invocation' = [invocation EXCEPT ![i] =
         [dir |-> @.dir, cmd |-> "none", pc |-> "idle", mem |-> {}, failed |-> {},
          exit |-> 0]]
    /\ UNCHANGED <<statefile, lock, cloud>>
    /\ UNCHANGED <<retryVars, scenVars, tfVars, gateVars, resVars, cliVars, demoVars, pipeVars, hookVars, genVars>>

\* --------------------------------------------------------------- workflows
\* The Docker Build and Deploy workflows as the README describes them
\* (.github/workflows/docker-build.yml and deploy.yml): both are triggered by
\* a push to main and run in parallel. An image is named by the commit it was
\* built from.

DeployedImageOfCommit(commit, tagged) == commit
\* "Deploy workflow uses the `latest` Docker image tag": the image the service
\* pulls is the one the tag designates when the Deploy run applies
DeployedImage(commit, tagged) == tagged

\* a push to main triggers one run of each workflow
PushToMain ==
  /\ head < MaxPushes
  /\ head' = head + 1
  /\ building' = building \cup {head + 1}
  /\ deploying' = deploying \cup {head + 1}
  /\ UNCHANGED <<latest, serviceImage>>
  /\ UNCHANGED <<retryVars, scenVars, tfVars, gateVars, resVars, cliVars, demoVars, concVars, hookVars, genVars>>

\* a Docker Build run builds the image of its commit and pushes it under its
\* tags, `latest` among them
DockerBuild ==
  /\ \E c \in building :
       /\ building' = building \ {c}
       /\ latest' = c
  /\ UNCHANGED <<head, deploying, serviceImage>>
  /\ UNCHANGED <<retryVars, scenVars, tfVars, gateVars, resVars, cliVars, demoVars, concVars, hookVars, genVars>>

\* a Deploy run applies the configuration: the new task pulls the image
Deploy ==
  /\ \E c \in deploying :
       /\ deploying' = deploying \ {c}
       /\ serviceImage' = DeployedImage(c, latest)
  /\ UNCHANGED <<head, building, latest>>
  /\ UNCHANGED <<retryVars, scenVars, tfVars, gateVars, resVars, cliVars, demoVars, concVars, hookVars, genVars>>

\* ------------------------------------------------------------ beforeAll
\* test.beforeAll of article.spec.ts, of author.spec.ts, and of the version
\* of author.spec.ts that logs in through adminLogin: the login, then the
\* request that creates an API token, then the tests' requests.

HookFiles == {"article.spec.ts", "author.spec.ts", "author.spec.ts (adminLogin)"}

\* the value of a `let` variable that was never assigned
Unassigned == "undefined"

AdminTokens == {"jwt-a", "jwt-b"}

\* accessKey fields of a response body ("": the field is missing)
AccessKeys == {"", "key-a", "key-b"}

\* what the creation request is answered: a response with a status and a
\* body, or the request throws (status 0)
TokenResponses ==
  [status : {201}, data_accessKey : AccessKeys, accessKey : AccessKeys]
    \cup [status : {0, 403, 404}, data_accessKey : {""}, accessKey : {""}]

\* a || b
OrElse(a, b) == IF a # "" THEN a ELSE b

\* the token of `Authorization: Bearer ${...}` in the creation request
CreationBearer(file, auth, api) ==
  IF file = "author.spec.ts" THEN api ELSE auth

\* apiToken as the hook assigns it from the response
AssignedApiToken(file, r, auth) ==
  IF r.status = 0 \/ ~Ok(r.status) THEN auth
  ELSE IF file = "author.spec.ts" THEN OrElse(r.accessKey, auth)
  ELSE OrElse(r.data_accessKey, OrElse(r.accessKey, auth))

\* the login: adminLogin returns the token or throws; in author.spec.ts the
\* expect on loginResponse.ok() passes or fails
BeforeAllLogin ==
  /\ baPc = "login"
  /\ \/ \E t \in AdminTokens : authToken' = t /\ baPc' = "token"
     \/ baPc' = "failed" /\ UNCHANGED authToken
  /\ UNCHANGED <<baSuite, apiToken, tokenResponse, baSent>>
  /\ UNCHANGED <<retryVars, scenVars, tfVars, gateVars, resVars, cliVars, demoVars, concVars, pipeVars, genVars>>

\* the request that creates the API token, and the assignment of apiToken
BeforeAllCreateToken ==
  /\ baPc = "token"
  /\ baSent' = Append(baSent, [to |-> "api-tokens",
                               bearer |-> CreationBearer(baSuite, authToken, apiToken)])
  /\ \E r \in TokenResponses :
       /\ tokenResponse' = r
       /\ apiToken' = AssignedApiToken(baSuite, r, authToken)
  /\ baPc' = "done"
  /\ UNCHANGED <<baSuite, authToken>>
  /\ UNCHANGED <<retryVars, scenVars, tfVars, gateVars, resVars, cliVars, demoVars, concVars, pipeVars, genVars>>

\* a test of the suite sends a request with `Bearer ${apiToken}`
SuiteRequest ==
  /\ baPc = "done"
  /\ Len(baSent) < MaxSent
  /\ baSent' = Append(baSent, [to |-> "api", bearer |-> apiToken])
  /\ UNCHANGED <<baSuite, baPc, authToken, apiToken, tokenResponse>>
  /\ UNCHANGED <<retryVars, scenVars, tfVars, gateVars, resVars, cliVars, demoVars, concVars, pipeVars, genVars>>

\* ------------------------------------------------- generated terraform.tfvars
\* test-terraform-local.sh when terraform.tfvars does not exist: the secrets
\* are taken from the output of generate-secrets.js with grep and cut and
\* written into the file. A key is the sequence of the words of its name, a
\* line of the output a key and the text after its `=`.

APP_KEYS == <<"APP", "KEYS">>
ADMIN_JWT_SECRET == <<"ADMIN", "JWT", "SECRET">>
JWT_SECRET == <<"JWT", "SECRET">>
API_TOKEN_SALT == <<"API", "TOKEN", "SALT">>
TRANSFER_TOKEN_SALT == <<"TRANSFER", "TOKEN", "SALT">>

\* the keys in the order generate-secrets.js prints them
PrintedKeys == <<APP_KEYS, ADMIN_JWT_SECRET, JWT_SECRET, API_TOKEN_SALT, TRANSFER_TOKEN_SALT>>

\* values of generateSecret() told apart
SecretValues == {"c2VjcmV0LWE=", "c2VjcmV0LWI="}

\* a line of the output that is not KEY=value
Banner == [key |-> <<>>, value |-> ""]

\* the output of generate-secrets.js for the values vals
Printed(vals) ==
  <<Banner>> \o [i \in 1..Len(PrintedKeys) |-> [key |-> PrintedKeys[i], value |-> vals[i]]]
             \o <<Banner>>

\* the lines of a sequence that satisfy keep
RECURSIVE Select(_, _)
Select(lines, keep) ==
  IF lines = <<>> THEN <<>>
  ELSE (IF keep[Head(lines)] THEN <<Head(lines)>> ELSE <<>>) \o Select(Tail(lines), keep)

\* `grep -E "^(APP_KEYS|...|TRANSFER_TOKEN_SALT)="`: the line starts with KEY=
GrepAnchored(lines) ==
  Select(lines, [l \in {lines[i] : i \in DOMAIN lines} |->
                   \E i \in DOMAIN PrintedKeys : l.key = PrintedKeys[i]])

\* the text "KEY=" occurs in the line: the name of the line's key ends with
\* KEY (a base64 value holds no underscore, so none of these keys occurs in it)
Contains(l, k) ==
  /\ k # <<>>
  /\ Len(k) <= Len(l.key)
  /\ SubSeq(l.key, Len(l.key) - Len(k) + 1, Len(l.key)) = k

\* `grep "KEY="`
Grep(lines, k) ==
  Select(lines, [l \in {lines[i] : i \in DOMAIN lines} |-> Contains(l, k)])

\* `cut -d'=' -f2-`: of each line, what follows its first `=`
Cut(lines) == [i \in DOMAIN lines |-> lines[i].value]

\* the variables of terraform.tfvars assigned from the shell variable of a key
VarOfKey ==
  [app_keys |-> APP_KEYS, admin_jwt_secret |-> ADMIN_JWT_SECRET,
   jwt_secret |-> JWT_SECRET, api_token_salt |-> API_TOKEN_SALT,
   transfer_token_salt |-> TRANSFER_TOKEN_SALT]

\* no terraform.tfvars
NoFile == [v \in DOMAIN VarOfKey \cup {"docker_image"} |-> <<>>]

\* "Creating terraform.tfvars from example...": SECRETS, the five
\* extractions, DOCKER_IMAGE with its default, and the file written
GenerateTfvars ==
  /\ tfvarsFile = NoFile
  /\ LET SECRETS == GrepAnchored(generated)
     IN tfvarsFile' =
          [v \in DOMAIN NoFile |->
             IF v = "docker_image"
             THEN <<OrElse(DOCKER_IMAGE, "your-dockerhub-username/devops-strapi:latest")>>
             ELSE Cut(Grep(SECRETS, VarOfKey[v]))]
  /\ UNCHANGED <<generated, DOCKER_IMAGE>>
  /\ UNCHANGED <<retryVars, scenVars, tfVars, gateVars, resVars, cliVars, demoVars, concVars, pipeVars, hookVars>>

\* ------------------------------------------------------- specifications
RetryIdle ==
  /\ helper = "none" /\ maxRetries = 0 /\ shouldRetry = "never"
  /\ initialDelay = 0
  /\ attempt = 0 /\ delay = 0 /\ lastError = 0
  /\ resps = <<>> /\ slept = <<>> /\ rpc = "idle"
  /\ result = 0 /\ thrown = NoError

ScenIdle ==
  /\ suite = "none" /\ scenario = "none" /\ spc = "idle"
  /\ accessed = <<>> /\ outcome = "none" /\ caller = "none"
  /\ published = FALSE

\* one environment before any run: nothing tracked; some resources may be
\* left in the provider by an earlier deployment whose state was lost (a
\* service only inside its cluster)
Preexisting ==
  {P \in SUBSET Named : /\ Cardinality(P) <= MaxPreexisting
                        /\ Service \in P => Cluster \in P}

TfFresh ==
  /\ tfvars \in [docker_image : DockerImages, desired_count : DesiredCounts,
                 secrets : SecretLines]
  /\ provider \in Preexisting
  /\ svcCount \in IF Service \in provider THEN DesiredCounts ELSE {0}
  /\ tfstate = {}
  /\ tfPhase = "idle"
  /\ plan = {}
  /\ mutations = 0
  /\ tfFailed = {}
  /\ prevRun = "none"
  /\ lastExit = 0
  /\ svcWritten = 0
  /\ impPc = 1
  /\ scheduled = {}
  /\ ran = <<>>
  /\ faultsLeft = 0
  /\ removeTries = [r \in Resources |-> 0]

\* an empty environment: nothing in the provider, nothing tracked, the
\* terraform.tfvars one of vs
TfEmpty(vs, faults) ==
  /\ tfvars \in vs
  /\ provider = {}
  /\ svcCount = 0
  /\ tfstate = {}
  /\ tfPhase = "idle"
  /\ plan = {}
  /\ mutations = 0
  /\ tfFailed = {}
  /\ prevRun = "none"
  /\ lastExit = 0
  /\ svcWritten = 0
  /\ impPc = 1
  /\ scheduled = {}
  /\ ran = <<>>
  /\ faultsLeft = faults
  /\ removeTries = [r \in Resources |-> 0]

TfAbsent ==
  TfEmpty({[docker_image |-> "user/devops-strapi:latest", desired_count |-> 1,
            secrets |-> AllSet]}, 0)

\* a gate run about to start under the environment e
GateAt(e) ==
  /\ genv = e
  /\ gate = "WAITING_FOR_HEALTH"
  /\ ws = "check"
  /\ elapsed = 0
  /\ probed = Unset
  /\ requested = Unset
  /\ nextTest = 1
  /\ running = {}
  /\ hookFailedNow = FALSE
  /\ tries = 0
  /\ results = [t \in Tests |-> "none"]
  /\ executed = {}
  /\ skipSuites = {}
  /\ hookDone = "none"

GateIdle == GateAt([CI |-> FALSE, BASE_URL |-> Unset])

GateInit == \E e \in [CI : BOOLEAN, BASE_URL : BaseUrls] : GateAt(e)

\* the resolver before its first run, the task in the stage st
ResolverAt(st) ==
  /\ task = st
  /\ rsPc = "idle"
  /\ TASK_ARN = "" /\ ENI_ID = "" /\ PUBLIC_IP = ""
  /\ rsOut = NoOutput
  /\ rsExit = 0
  /\ awsCalls = <<>>
  /\ polls = 0
  /\ outputs = NoOutputs

ResolverIdle == ResolverAt("none")

ResolverInit == \E i \in 1..Len(TaskStages) : ResolverAt(TaskStages[i])

\* no script is running; terraform/ holds the files files
CliAt(files) ==
  /\ shScript = "none" /\ shArgv = <<>> /\ shPc = "idle"
  /\ AUTO_APPROVE = FALSE /\ shReplies = <<>> /\ shRan = <<>> /\ shExit = 0
  /\ shFiles = files /\ shFiles0 = files

\* the demo script at the point where it has recorded the branch b and, if it
\* is the version with the trap (t), installed it
DemoAt(pc, t, b) ==
  /\ withTrap = t /\ demoPc = pc /\ CURRENT_BRANCH = b /\ branch = b
  /\ trapSet = t /\ status0 = 0 /\ demoExit = 0 /\ lastReturn = "none"

\* the repository when the script starts on the branch b: the demo branches
\* in pre are left from an earlier run, tracked files are modified or not (d)
DemoRepo(b, d, pre) ==
  /\ dirty = d
  /\ refs = [x \in Branches |->
               IF x = b THEN {"base"}
               ELSE IF x \in pre THEN {"older base", Commit(x)} ELSE {}]
  /\ refs0 = refs
  /\ gitLog = <<>>
  /\ signalled = FALSE

\* nothing deployed, no invocation started; invocation i is to run in dirs[i]
ConcAt(dirs) ==
  /\ invocation = [i \in Invocations |->
                     [dir |-> dirs[i], cmd |-> "none", pc |-> "idle", mem |-> {},
                      failed |-> {}, exit |-> 0]]
  /\ statefile = [d \in Checkouts |-> {}]
  /\ lock = [d \in Checkouts |-> 0]
  /\ cloud = {}

ConcIdle == ConcAt([i \in Invocations |-> "checkout"])

\* main as last built and deployed: no workflow run is in flight
PipeIdle ==
  /\ head = 0 /\ building = {} /\ deploying = {} /\ latest = 0 /\ serviceImage = 0

DemoIdle == DemoAt("idle", FALSE, "main") /\ DemoRepo("main", FALSE, {})

\* the hook of file is about to run
HookAt(file, pc) ==
  /\ baSuite = file /\ baPc = pc
  /\ authToken = Unassigned /\ apiToken = Unassigned
  /\ tokenResponse = [status |-> 0, data_accessKey |-> "", accessKey |-> ""]
  /\ baSent = <<>>

HookIdle == HookAt("article.spec.ts", "idle")

\* terraform.tfvars does not exist; generate-secrets.js will print vals
GenAt(vals, image) ==
  /\ generated = Printed(vals)
  /\ DOCKER_IMAGE = image
  /\ tfvarsFile = NoFile

\* the file exists: nothing is generated
GenIdle ==
  /\ generated = <<>>
  /\ DOCKER_IMAGE = ""
  /\ tfvarsFile = [v \in DOMAIN NoFile |-> <<"set">>]

RestIdle == PipeIdle /\ HookIdle /\ GenIdle

OpsIdle == CliAt({}) /\ DemoIdle /\ ConcIdle /\ RestIdle

\* the verifier: helpers and scenarios
Init == RetryIdle /\ ScenIdle /\ TfAbsent /\ GateIdle /\ ResolverIdle /\ OpsIdle

Next ==
  \/ CallHelper
  \/ adminLogin
  \/ getResourceWithRetry
  \/ updateResourceWithRetry
  \/ retryWithBackoff
  \/ LoopExit
  \/ StartScenario
  \/ ScenCreate
  \/ publishArticle
  \/ ScenCallHelper
  \/ ScenAfterHelper
  \/ ScenDelete
  \/ ScenVerifyDeleted

Spec == Init /\ [][Next]_vars

\* every awaited promise settles (each request and each timer has a timeout),
\* so a started helper or scenario takes its next step
FairSpec == Spec /\ WF_vars(Next)

\* the reconciler: import, apply and destroy runs against one environment
InitTf == RetryIdle /\ ScenIdle /\ TfFresh /\ GateIdle /\ ResolverIdle /\ OpsIdle

NextTf ==
  \/ EditTfvars
  \/ StartImport
  \/ safe_import
  \/ ImportDone
  \/ StartApply
  \/ ApplyCreate
  \/ ApplyUpdate
  \/ ApplyFinish
  \/ StartDestroy
  \/ DestroyStep
  \/ DestroyFinish

SpecTf == InitTf /\ [][NextTf]_vars

\* teardown: an empty environment with valid variables is built up and torn
\* down, the provider answering some removals with an error
TfTeardown ==
  TfEmpty([docker_image : DockerImages \ {""}, desired_count : DesiredCounts,
           secrets : {AllSet}], MaxRemovalFailures)

InitTeardown == RetryIdle /\ ScenIdle /\ TfTeardown /\ GateIdle /\ ResolverIdle /\ OpsIdle

NextTeardown ==
  \/ StartApply
  \/ ApplyCreate
  \/ ApplyFinish
  \/ StartDestroy
  \/ DestroyStep
  \/ DestroyFinish

SpecTeardown == InitTeardown /\ [][NextTeardown]_vars

\* the release gate: one Playwright run
InitGate == RetryIdle /\ ScenIdle /\ TfAbsent /\ GateInit /\ ResolverIdle /\ OpsIdle

NextGate ==
  \/ WebServerCheck
  \/ Probe
  \/ HealthTimeout
  \/ StartTest
  \/ SkipTest
  \/ EndAttempt
  \/ GateFinish

SpecGate == InitGate /\ [][NextGate]_vars

\* the address resolver, polled while the task goes through its stages
InitResolver == RetryIdle /\ ScenIdle /\ TfAbsent /\ GateIdle /\ ResolverInit /\ OpsIdle

NextResolver ==
  \/ TaskAdvance
  \/ ResolverStart
  \/ ListTasks
  \/ DescribeTasks
  \/ DescribeNetworkInterfaces

SpecResolver == InitResolver /\ [][NextResolver]_vars

\* the operator's runs of the two scripts in one checkout, whose
\* terraform.tfvars may lack a secret or the image
InitCli ==
  /\ RetryIdle /\ ScenIdle /\ GateIdle /\ ResolverIdle
  /\ TfEmpty([docker_image : DockerImages, desired_count : {1}, secrets : SecretLines], 0)
  /\ \E files \in {{}, LocalFiles} : CliAt(files)
  /\ DemoIdle
  /\ ConcIdle /\ RestIdle

NextCli ==
  \/ test_terraform_local
  \/ destroy_infrastructure
  \/ Terraform
  \/ ApplyPrompt
  \/ CleanUp

SpecCli == InitCli /\ [][NextCli]_vars

\* one run of the demo script, in either version, started on main, master or
\* another branch
InitDemo ==
  /\ RetryIdle /\ ScenIdle /\ TfAbsent /\ GateIdle /\ ResolverIdle /\ CliAt({})
  /\ ConcIdle /\ RestIdle
  /\ \E t \in BOOLEAN, b \in {"main", "master", "feature/x"}, d \in BOOLEAN,
        pre \in SUBSET {FAILING_BRANCH, PASSING_BRANCH} :
       DemoAt("start", t, b) /\ DemoRepo(b, d, pre)

NextDemo ==
  \/ DemoStart
  \/ DemoFailingBranch
  \/ DemoPassingBranch
  \/ DemoPush
  \/ DemoReturn
  \/ DemoSummary
  \/ DemoSignal

SpecDemo == InitDemo /\ [][NextDemo]_vars

\* two invocations against the environment, from one working directory or
\* from two
InitConcurrent ==
  /\ RetryIdle /\ ScenIdle /\ TfAbsent /\ GateIdle /\ ResolverIdle
  /\ CliAt({}) /\ DemoIdle
  /\ RestIdle
  /\ \E dirs \in [Invocations -> Checkouts] : ConcAt(dirs)

NextConcurrent ==
  \/ Invoke
  \/ Mutate
  \/ Finish
  \/ Again

SpecConcurrent == InitConcurrent /\ [][NextConcurrent]_vars

\* pushes to main and the workflow runs they trigger
NextPipeline ==
  \/ PushToMain
  \/ DockerBuild
  \/ Deploy

SpecPipeline == Init /\ [][NextPipeline]_vars

\* the beforeAll hook of each suite file and the requests of its tests
InitHook ==
  /\ RetryIdle /\ ScenIdle /\ TfAbsent /\ GateIdle /\ ResolverIdle
  /\ CliAt({}) /\ DemoIdle /\ ConcIdle /\ PipeIdle /\ GenIdle
  /\ \E file \in HookFiles : HookAt(file, "login")

NextHook ==
  \/ BeforeAllLogin
  \/ BeforeAllCreateToken
  \/ SuiteRequest

SpecHook == InitHook /\ [][NextHook]_vars

\* the generation of terraform.tfvars for every output of generate-secrets.js
InitGenerate ==
  /\ RetryIdle /\ ScenIdle /\ TfAbsent /\ GateIdle /\ ResolverIdle
  /\ CliAt({}) /\ DemoIdle /\ ConcIdle /\ PipeIdle /\ HookIdle
  /\ \E vals \in [1..Len(PrintedKeys) -> SecretValues],
        image \in {"", "user/devops-strapi:latest"} : GenAt(vals, image)

NextGenerate == GenerateTfvars

SpecGenerate == InitGenerate /\ [][NextGenerate]_vars

\* ================================================================ claims
\* ---------------------------------------------------------------- C1
\* C1: reconcile is idempotent. In an apply that follows an apply, with the
\* input variables unchanged and nothing else having touched the environment
\* in between, no step creates, updates, replaces or removes a resource, and
\* the tracked state and the provider stay as the first apply left them.
C1_Idempotent ==
  [][ (tfPhase = "applying" /\ prevRun = "apply")
        => /\ mutations' = 0
           /\ tfstate' = tfstate
           /\ provider' = provider
           /\ svcCount' = svcCount ]_vars

\* a second apply is running after a first one that created the whole system
C1_Witness ==
  /\ tfPhase = "applying"
  /\ prevRun = "apply"
  /\ lastExit = 0
  /\ tfstate = Resources

\* ---------------------------------------------------------------- C2
\* C2: import safety. After import-existing-resources has run, every named
\* resource that exists in the provider is bound in tracked state, and the
\* reconcile that follows gets no "already exists" error.
C2_ImportSafety ==
  /\ (tfPhase = "idle" /\ prevRun = "import") => (provider \cap Named) \subseteq tfstate
  /\ (tfPhase = "applying" /\ prevRun = "import") => tfFailed = {}

\* ---------------------------------------------------------------- C3
\* C3: no apply creates or updates the ECS service with a desired_count
\* other than 1.
C3_CountPinned == svcWritten \in {0, 1}

\* ---------------------------------------------------------------- C4
\* what the claim names as the prerequisites of the service and of the task
\* definition
ServiceNeeds == {Cluster, TaskDef, SecurityGroup}
TaskDefNeeds == {RoleExecution, RoleTask, LogGroup} \cup Secrets

\* r is created, replaced or updated by this step of an apply
Mutated(r) ==
  /\ tfPhase = "applying"
  /\ mutations' = mutations + 1
  /\ r \in plan /\ r \notin plan'

\* r is removed by this step of a destroy
Removed(r) ==
  /\ tfPhase = "destroying"
  /\ r \in tfstate /\ r \notin tfstate'

\* r is stable: tracked, with no action of this run pending on it
Stable(r) == r \in tfstate /\ r \notin plan

\* C4 (as amended): within one reconcile the service is created or updated only
\* when the cluster, the task definition and the security group are stable, and
\* the task definition only when both roles, the four secrets and the log group
\* are stable; within one destroy a resource is removed only after every
\* resource that depends on it: the service before the task definition, the
\* cluster and the security group; the task definition before the secrets, the
\* log group and the roles.
C4_DependencyOrder ==
  [][ /\ Mutated(Service) => \A d \in ServiceNeeds : Stable(d)
      /\ Mutated(TaskDef) => \A d \in TaskDefNeeds : Stable(d)
      /\ \A d \in ServiceNeeds : Removed(d) => Service \notin tfstate
      /\ \A d \in TaskDefNeeds : Removed(d) => TaskDef \notin tfstate ]_vars

\* a destroy that follows a complete apply has removed the service and the
\* task definition and still holds the cluster
C4_Witness ==
  /\ tfPhase = "destroying"
  /\ prevRun = "apply"
  /\ svcWritten # 0
  /\ Service \notin tfstate
  /\ TaskDef \notin tfstate
  /\ Cluster \in tfstate
  /\ Secrets \subseteq tfstate

\* C4 (as stated): the above, and the removals of a destroy follow the sequence
\* service, task definition, secrets / log group / roles, network rules,
\* cluster: the security group goes only after the secrets, the log group and
\* the roles, and the cluster only after the security group.
C4_StatedSequence ==
  [][ /\ Mutated(Service) => \A d \in ServiceNeeds : Stable(d)
      /\ Mutated(TaskDef) => \A d \in TaskDefNeeds : Stable(d)
      /\ \A d \in ServiceNeeds : Removed(d) => Service \notin tfstate
      /\ \A d \in TaskDefNeeds : Removed(d) => TaskDef \notin tfstate
      /\ Removed(SecurityGroup) => TaskDefNeeds \cap tfstate = {}
      /\ Removed(Cluster) => SecurityGroup \notin tfstate ]_vars

\* ---------------------------------------------------------------- C5
Done == rpc \in {"returned", "thrown"}

\* every response so far is one the helper treats as "not yet": the transient
\* status for the HTTP helpers, a throw or a rejected result for retryWithBackoff
AllTransient ==
  \A i \in 1..Len(resps) :
    IF helper = "retryWithBackoff"
    THEN resps[i].status = 0 \/ ShouldRetry(shouldRetry, resps[i])
    ELSE resps[i].status = TransientStatus(helper)

\* C5: retry bound. No helper ever sends more than maxRetries + 1 requests;
\* against a server that only ever answers with the transient condition the
\* call ends by throwing, after exactly maxRetries + 1 requests; and every
\* started call ends (returns or throws): while it runs it can always take a
\* step, and each step either ends it or moves attempt one closer to
\* maxRetries + 1, which attempt never exceeds.
C5_RetryBound ==
  /\ [](helper \in Helpers => Len(resps) <= maxRetries + 1)
  /\ []((helper \in Helpers /\ Done /\ AllTransient)
          => (rpc = "thrown" /\ Len(resps) = maxRetries + 1))
  /\ [](rpc = "loop" => /\ attempt <= maxRetries + 1
                        /\ ENABLED (adminLogin \/ getResourceWithRetry
                                      \/ updateResourceWithRetry
                                      \/ retryWithBackoff \/ LoopExit))
  /\ [][rpc = "loop" => (Done' \/ attempt' = attempt + 1)]_vars

\* a login with the default ceiling, rate-limited on every request, has thrown
C5_Witness ==
  /\ helper = "adminLogin"
  /\ maxRetries = DefaultMaxRetries
  /\ rpc = "thrown"
  /\ Len(resps) = DefaultMaxRetries + 1
  /\ \A i \in 1..Len(resps) : resps[i].status = 429

\* ---------------------------------------------------------------- C6
\* C6: adminLogin sends a further login request only if the previous response
\* had status 429.
C6_RetryOnlyOn429 ==
  [][ (helper = "adminLogin" /\ Len(resps) >= 1 /\ Len(resps') = Len(resps) + 1)
        => resps[Len(resps)].status = 429 ]_vars

\* ---------------------------------------------------------------- C7
\* the first j responses are 404, for j + 1 responses so far
Leading404(j) == \A i \in 1..j : resps[i].status = 404

\* C7: read-after-write tolerance of getResourceWithRetry. If the first j GETs
\* (0 <= j <= maxRetries) are answered 404 and the next one 2xx, the call has
\* returned the body of that response after exactly j + 1 requests; and it
\* never gives up on 404s alone before request maxRetries + 1.
C7_ReadAfterWrite ==
  helper = "getResourceWithRetry" =>
    /\ \A j \in 0..maxRetries :
         (Len(resps) > j /\ Leading404(j) /\ Ok(resps[j + 1].status))
           => /\ rpc = "returned"
              /\ result = resps[j + 1].body
              /\ Len(resps) = j + 1
    /\ (rpc = "thrown" /\ Leading404(Len(resps))) => Len(resps) = maxRetries + 1

\* the default call: five 404s, then the 2xx answer to the fifth retry
C7_Witness ==
  /\ helper = "getResourceWithRetry"
  /\ maxRetries = DefaultMaxRetries
  /\ Len(resps) = DefaultMaxRetries + 1
  /\ Leading404(DefaultMaxRetries)
  /\ Ok(resps[DefaultMaxRetries + 1].status)
  /\ rpc = "returned"

\* ---------------------------------------------------------------- C8
RECURSIVE Pow2(_)
Pow2(n) == IF n = 0 THEN 1 ELSE 2 * Pow2(n - 1)

\* C8: backoff growth. The k-th delay slept is base * 2^(k-1) and is slept
\* between request k and request k + 1, with base 1000 ms in adminLogin, 500 ms
\* in getResourceWithRetry and updateResourceWithRetry and initialDelay in
\* retryWithBackoff; so there is no delay before the first attempt, and none
\* after the last one.
C8_BackoffGrowth ==
  helper \in Helpers =>
    LET base == IF helper = "adminLogin" THEN 1000
                ELSE IF helper = "retryWithBackoff" THEN initialDelay
                ELSE 500
    IN /\ \A k \in 1..Len(slept) :
            /\ slept[k].ms = base * Pow2(k - 1)
            /\ slept[k].afterReq = k
       /\ Len(slept) <= maxRetries
       /\ Len(slept) <= Len(resps)
       /\ (Done /\ Len(resps) > 0) => Len(slept) = Len(resps) - 1

\* an update has slept 500, 1000 and 2000 ms and ended
C8_Witness ==
  /\ helper = "updateResourceWithRetry"
  /\ Done
  /\ Len(slept) = 3
  /\ slept[3].ms = 2000

\* ---------------------------------------------------------------- C9
\* C9: when an HTTP helper gives up with 'failed after N attempts', it has sent
\* exactly N requests.
C9_CeilingExact ==
  (helper \in HttpHelpers /\ rpc = "thrown" /\ thrown.msg = "failedAfter")
    => Len(resps) = thrown.n

\* ---------------------------------------------------------------- C10
\* the statuses answered to the accesses by id that follow the create
AccessStatuses ==
  IF scenario = "delete" THEN accessed
  ELSE [i \in 1..Len(resps) |-> resps[i].status]

\* C10: in the read, update and delete scenarios of both suites, a 404 answer
\* to the first access after the create is retried: the scenario does not end
\* with that 404 as the only answer to its access.
C10_LagTolerated ==
  (scenario \in Scenarios /\ spc = "done" /\ Len(AccessStatuses) >= 1
     /\ AccessStatuses[1] = 404)
    => Len(AccessStatuses) >= 2

\* --------------------------------------------------------------- C11
\* the run has ended with the verdict of its tests
GateEnded == gate \in {"PASSED", "FAILED"}

\* C11: gate non-short-circuit. When a run ends, every declared scenario has
\* an outcome (passed, failed or skipped); a scenario that failed does not
\* keep the scenarios declared after it from executing: the only scenarios
\* whose body was never entered belong to a suite whose beforeAll hook failed
\* (the scenario at which it failed is reported failed, the rest of that
\* suite skipped); and the run is PASSED if and only if every scenario passed.
C11_NonShortCircuit ==
  GateEnded =>
    /\ \A t \in Tests : results[t] \in {"passed", "failed", "skipped"}
    /\ \A t \in Tests : results[t] = "skipped" => Declared[t].suite \in skipSuites
    /\ \A t \in Tests : t \notin executed => Declared[t].suite \in skipSuites
    /\ gate = "PASSED" <=> \A t \in Tests : results[t] = "passed"

\* the first scenario failed an assertion, the second one passed, the run FAILED
C11_Witness ==
  /\ gate = "FAILED"
  /\ results[1] = "failed" /\ 1 \in executed
  /\ results[2] = "passed" /\ 2 \in executed
  /\ skipSuites = {}

\* C11 (as stated): when a run ends every declared scenario has executed and
\* has passed or failed, and the run is PASSED if and only if all passed.
C11_EveryScenarioRuns ==
  GateEnded =>
    /\ \A t \in Tests : results[t] \in {"passed", "failed"} /\ t \in executed
    /\ gate = "PASSED" <=> \A t \in Tests : results[t] = "passed"

\* --------------------------------------------------------------- C12
\* C12: at most one scenario is executing at any time, with or without CI,
\* and a scenario starts only when every scenario declared before it has
\* its outcome.
C12_Sequential ==
  /\ [](Cardinality(running) <= 1)
  /\ [][ \A t \in Tests :
           (results[t] = "none" /\ results'[t] # "none")
             => \A u \in 1..(t - 1) : results[u] \in {"passed", "failed", "skipped"}
       ]_vars

\* under CI the third scenario is executing, the first two are done
C12_Witness ==
  /\ genv.CI
  /\ running = {3}
  /\ results[1] # "none" /\ results[2] # "none"

\* --------------------------------------------------------------- C13
StatedEdges ==
  { <<"WAITING_FOR_HEALTH", "RUNNING_TESTS">>,
    <<"RUNNING_TESTS", "PASSED">>,
    <<"RUNNING_TESTS", "FAILED">>,
    <<"WAITING_FOR_HEALTH", "TIMEOUT">> }

NothingRan ==
  /\ executed = {}
  /\ running = {}
  /\ \A t \in Tests : results[t] = "none"

\* C13: the gate moves only along WAITING_FOR_HEALTH -> RUNNING_TESTS ->
\* {PASSED, FAILED}, WAITING_FOR_HEALTH -> TIMEOUT, or WAITING_FOR_HEALTH ->
\* ERROR (the server command cannot be started: the url is already in use and
\* must not be reused, or the command exits); no scenario executes before a
\* probe of the url has succeeded; once 120 s have passed without a successful
\* probe the gate can only end in TIMEOUT, and TIMEOUT and ERROR are reached
\* with zero scenarios executed; PASSED, FAILED, TIMEOUT and ERROR are terminal.
C13_GateMachine ==
  /\ [][ gate' # gate
           => <<gate, gate'>> \in StatedEdges \cup {<<"WAITING_FOR_HEALTH", "ERROR">>} ]_vars
  /\ [](~NothingRan => probed = [host |-> "localhost", port |-> 1337])
  /\ [](gate = "TIMEOUT" => elapsed >= 120000 /\ NothingRan /\ probed = Unset)
  /\ [](gate = "ERROR" => NothingRan /\ probed = Unset)
  /\ [][ (gate = "WAITING_FOR_HEALTH" /\ ws = "polling" /\ elapsed >= 120000)
           => gate' \in {"WAITING_FOR_HEALTH", "TIMEOUT"} /\ elapsed' = elapsed ]_vars

\* the url never answered: the gate has timed out
C13_Witness ==
  /\ gate = "TIMEOUT"
  /\ ws = "polling"
  /\ elapsed >= 120000

\* C13 (as stated): the gate moves only along WAITING_FOR_HEALTH ->
\* RUNNING_TESTS -> {PASSED, FAILED} or WAITING_FOR_HEALTH -> TIMEOUT.
C13_StatedMachine ==
  [][ gate' # gate => <<gate, gate'>> \in StatedEdges ]_vars

\* --------------------------------------------------------------- C14
\* C14: the address whose liveness was waited for is the address the
\* scenarios send their requests to, whatever BASE_URL is.
C14_SameAddress ==
  gate = "RUNNING_TESTS" => probed = requested

\* --------------------------------------------------------------- C15
Exited == rsPc = "exited"

NoFault == \A i \in DOMAIN awsCalls : awsCalls[i].fault = "none"

\* a step of the resolver program (not of the task)
ResolverStep == rsPc' # rsPc \/ awsCalls' # awsCalls

\* C15: the resolver is a total, side-effect-free read. Every run exits 0
\* with a JSON result, issues only list / describe calls, and changes neither
\* the task nor any resource or the tracked state; a run whose list call
\* found no task reports no_task_running with an empty address.
C15_TotalPureRead ==
  /\ [](Exited => /\ rsExit = 0
                  /\ rsOut.status \in {"no_task_running", "eni_not_found",
                                       "no_public_ip", "success"})
  /\ [](\A i \in DOMAIN awsCalls :
          awsCalls[i].op \in {"ecs:ListTasks", "ecs:DescribeTasks",
                              "ec2:DescribeNetworkInterfaces"})
  /\ [][ ResolverStep => /\ task' = task
                         /\ provider' = provider
                         /\ svcCount' = svcCount
                         /\ tfstate' = tfstate ]_vars
  /\ [](Exited /\ awsCalls[1].fault = "none" /\ awsCalls[1].saw = "none"
          => rsOut = [public_ip |-> "", status |-> "no_task_running"])

\* polled a second time with no task running
C15_Witness ==
  /\ Exited
  /\ polls >= 2
  /\ awsCalls[1].fault = "none" /\ awsCalls[1].saw = "none"
  /\ rsOut.status = "no_task_running"

\* --------------------------------------------------------------- C16
\* C16: the resolver reports the first stage that is not ready, as its calls
\* found it: no_task_running if no task is listed, else eni_not_found if the
\* task has no network interface, else no_public_ip if the interface has no
\* public address, else success with the address; and the public_ip it
\* returns is non-empty if and only if the status is success.
C16_FirstNotReady ==
  Exited =>
    /\ rsOut.public_ip # "" <=> rsOut.status = "success"
    /\ NoFault =>
         /\ rsOut.status =
              IF awsCalls[1].saw = "none" THEN "no_task_running"
              ELSE IF awsCalls[2].saw \notin {"attached", "addressed"} THEN "eni_not_found"
              ELSE IF awsCalls[3].saw # "addressed" THEN "no_public_ip"
              ELSE "success"
         /\ rsOut.status = "success" => rsOut.public_ip = "198.51.100.7"

\* the task has its interface but no address yet
C16_Witness ==
  /\ Exited
  /\ NoFault
  /\ Len(awsCalls) = 3
  /\ rsOut.status = "no_public_ip"

\* --------------------------------------------------------------- C17
\* C17: a run in which a provider call failed for a fatal reason does not
\* report one of the three not-yet-ready statuses.
C17_FatalDistinct ==
  (Exited /\ rsOut.status \in {"no_task_running", "eni_not_found", "no_public_ip"})
    => NoFault

\* --------------------------------------------------------------- C18
\* a required value is absent or empty in terraform.tfvars
SecretUnset ==
  \E k \in {"app_keys", "admin_jwt_secret", "jwt_secret", "api_token_salt",
            "transfer_token_salt"} : tfvars.secrets[k] \in {"absent", "empty"}

\* C18: missing required configuration aborts before anything is changed. With
\* a secret absent or empty in terraform.tfvars the script ends with a
\* non-zero code having run neither terraform init nor plan nor apply; no
\* run gets to act on resources with an empty docker_image or an unset
\* secret, and the run that is refused leaves provider and state untouched.
C18_MissingConfigAborts ==
  /\ []((tfPhase = "idle" /\ prevRun = "apply" /\ SecretUnset)
          => ran = <<>> /\ lastExit = 1)
  /\ [](tfPhase \in {"applying", "destroying"}
          => tfvars.docker_image # "" /\ ~SecretUnset)
  /\ [][ (tfPhase = "idle" /\ (SecretUnset \/ tfvars.docker_image = ""))
           => /\ provider' = provider
              /\ tfstate' = tfstate
              /\ svcCount' = svcCount
              /\ tfPhase' \in {"idle", "importing"} ]_vars

\* the script has refused a terraform.tfvars whose jwt_secret is empty
C18_Witness ==
  /\ tfPhase = "idle"
  /\ prevRun = "apply"
  /\ tfvars.secrets["jwt_secret"] = "empty"
  /\ ran = <<>>
  /\ lastExit = 1

\* --------------------------------------------------------------- C19
\* the destroy script has ended with exit code 0
Destroyed == tfPhase = "idle" /\ prevRun = "destroy" /\ lastExit = 0

\* C19: teardown completeness. After the destroy script has ended with exit
\* code 0 nothing is tracked, nothing that was created remains in the
\* provider, and every name is free for the next reconcile to create again.
C19_TeardownComplete ==
  Destroyed =>
    /\ tfstate = {}
    /\ provider = {}
    /\ scheduled = {}

\* --------------------------------------------------------------- C20
\* C20: teardown failure handling. The removal of a resource is retried:
\* when a destroy ends with a non-zero result, each resource whose removal
\* was answered with an error has been tried more than once.
C20_RemovalRetried ==
  (tfPhase = "idle" /\ prevRun = "destroy" /\ lastExit # 0)
    => \A r \in tfFailed : removeTries[r] >= 2

\* ---- C28: import is idempotent and resumable
\* a run of the import script started when the run that ended last was an
\* import that reached its end
RerunOfCompleteImport == tfPhase = "importing" /\ prevRun = "import" /\ lastExit = 0

\* C28: a safe_import of a resource that is already in the tracked state binds
\* nothing, fails nothing and goes on with the next call; no step of an import
\* run drops a binding, so a run started after an aborted one still holds what
\* the aborted run bound; and a run started after a complete run leaves the
\* tracked state as it was.
C28_ImportIdempotent ==
  [][ /\ (tfPhase = "importing" /\ impPc <= Len(ImportSequence)
           /\ ImportSequence[impPc] \in tfstate)
         => (tfstate' = tfstate /\ tfFailed' = tfFailed /\ impPc' = impPc + 1
             /\ tfPhase' = "importing")
      /\ (tfPhase = "importing" \/ tfPhase' = "importing") => tfstate \subseteq tfstate'
      /\ RerunOfCompleteImport => (tfstate' = tfstate /\ tfFailed' = tfFailed) ]_vars

\* a re-run after a complete run has gone through the whole sequence, with
\* resources bound
C28_Witness ==
  /\ RerunOfCompleteImport
  /\ impPc > Len(ImportSequence)
  /\ Service \in tfstate

\* ---- C29: a failed import does not stop the script
ImportEnded == tfPhase = "idle" /\ prevRun = "import"

\* C29: when the import script has ended, every call of its sequence was made
\* and the final listing was reached, whether or not an import failed.
C29_ImportContinues == ImportEnded => impPc > Len(ImportSequence)

\* ---- C22, C26, C27: the scripts' consent and ordering
Invoked(cmd) == \E i \in DOMAIN shRan : shRan[i].cmd = cmd

Succeeded(cmd) == \E i \in DOMAIN shRan : shRan[i].cmd = cmd /\ shRan[i].status = 0

\* the operator typed yes, in lower or upper case
TypedYes(reply) == reply \in {<<"y", "e", "s">>, <<"Y", "E", "S">>}

Declined == shReplies # <<>> /\ ~TypedYes(shReplies[1])

\* C22: destroy-infrastructure.sh invokes terraform destroy only if its first
\* argument is --auto-approve or the operator typed yes at the confirmation;
\* after any other answer it has exited with 0, has invoked no terraform
\* command and the local files are those it found.
C22_DestroyNeedsConsent ==
  shScript = "destroy-infrastructure" =>
    /\ Invoked("destroy") =>
         \/ (shArgv # <<>> /\ shArgv[1] = "--auto-approve")
         \/ (shReplies # <<>> /\ TypedYes(shReplies[1]))
    /\ (shPc = "exited" /\ ~AUTO_APPROVE /\ Declined) =>
         (shExit = 0 /\ shRan = <<>> /\ shFiles = shFiles0)

\* the confirmation was answered "yes " and the script ended with the local
\* files in place
C22_Witness ==
  /\ shScript = "destroy-infrastructure"
  /\ shPc = "exited"
  /\ shReplies = << <<"y", "e", "s", " ">> >>
  /\ shFiles = LocalFiles

ApplyGuarded ==
  Invoked("apply") =>
    /\ Arg1(shArgv) = "apply"
    /\ Len(shRan) >= 3
    /\ shRan[1] = [cmd |-> "init", status |-> 0]
    /\ shRan[2] = [cmd |-> "plan", status |-> 0]
    /\ shRan[3].cmd = "apply"
    /\ shReplies # <<>> /\ TypedYes(shReplies[1])

EndedWithoutApply ==
  /\ shPc = "exited"
  /\ Arg1(shArgv) \in {"", "plan"} \/ (Arg1(shArgv) = "apply" /\ Declined)

InvalidActionRejected ==
  (shPc = "exited" /\ Arg1(shArgv) \notin {"", "plan", "apply"}) =>
    (shExit # 0 /\ shRan = <<>>)

\* C26: test-terraform-local.sh invokes terraform apply only with the action
\* apply, after init and plan have returned 0 in this run and the operator has
\* typed yes; with the action plan, or any other answer, apply is not invoked
\* and the exit code is 0 exactly if init and plan returned 0; any other action
\* ends the script non-zero with no terraform command invoked.
C26_ApplyGuarded ==
  shScript = "test-terraform-local" =>
    /\ ApplyGuarded
    /\ EndedWithoutApply =>
         (~Invoked("apply") /\ (shExit = 0 <=> (Succeeded("init") /\ Succeeded("plan"))))
    /\ InvalidActionRejected

\* apply has been invoked in a run
C26_Witness ==
  /\ shScript = "test-terraform-local"
  /\ shPc = "exited"
  /\ Succeeded("apply")

\* C26 as stated: with the action plan or any other answer the exit code is 0
C26_ExitZeroWithoutApply ==
  shScript = "test-terraform-local" =>
    /\ ApplyGuarded
    /\ EndedWithoutApply => (~Invoked("apply") /\ shExit = 0)
    /\ InvalidActionRejected

\* C27: local files are missing that were there when the script started only
\* if the script is destroy-infrastructure.sh and terraform destroy has
\* returned 0 in this run.
C27_StateKeptUnlessDestroyed ==
  (shFiles0 \ shFiles) # {} =>
    (shScript = "destroy-infrastructure" /\ Succeeded("destroy"))

\* the operator confirmed the clean-up and the local files are gone
C27_Witness ==
  /\ shScript = "destroy-infrastructure"
  /\ shPc = "exited"
  /\ ~AUTO_APPROVE
  /\ shFiles0 = LocalFiles
  /\ shFiles = {}

C25_AlwaysReturns ==
  (~withTrap /\ demoPc = "ended" /\ status0 # 130) =>
    \/ branch = CURRENT_BRANCH
    \/ (lastReturn = "failed" /\ demoExit # 0)

\* ---- C30: createAndPublishArticle returns only a published article
\* C30: when createAndPublishArticle has returned the id to a test of the
\* article suite, the article is published.
C30_ReturnsOnlyPublished ==
  (suite = "article" /\ spc = "access") => published

\* ---- C21: one reconciliation at a time per environment
Running(i) == invocation[i].pc = "running"

\* C21: at no time do two invocations against the environment both hold a
\* state they are modifying; whatever exists in the provider when no
\* invocation runs is bound in the state of every working directory that has
\* completed an invocation last.
C21_SingleWriter ==
  /\ Cardinality({i \in Invocations : Running(i)}) <= 1
  /\ \A i \in Invocations :
       (invocation[i].pc = "done" /\ \A j \in Invocations : ~Running(j))
         => cloud \subseteq statefile[invocation[i].dir]

\* ---- C23: the race between Docker Build and Deploy
\* C23: a Deploy run leaves the service on the image that `latest` designates
\* when it applies; if the Docker Build run of its commit has not pushed by
\* then, that is not the image built from the pushed commit.
C23_DeployUsesLatest ==
  [][ \A c \in deploying :
        (c \notin deploying') =>
          /\ serviceImage' = latest
          /\ c \in building => serviceImage' # c ]_vars

\* the Deploy run of the last push has applied before its Docker Build run
\* has pushed, and the service runs an older image
C23_Witness ==
  /\ head > 0
  /\ head \notin deploying
  /\ head \in building
  /\ serviceImage # head

\* ---- C33: the error of an exhausted retryWithBackoff
\* C33: when retryWithBackoff has used all its attempts, the error it throws
\* is the exception of the last attempt if that attempt threw, and the generic
\* 'Max retries exceeded' error if the last attempt returned a result that
\* shouldRetry rejected.
C33_ErrorOfLastAttempt ==
  (helper = "retryWithBackoff" /\ rpc = "thrown") =>
     LET last == resps[Len(resps)]
     IN  IF last.status = 0
         THEN thrown.msg = "lastError" /\ thrown.n = last.body
         ELSE thrown.msg = "maxRetriesExceeded"

\* ---- C36: the outputs and the result of the resolver
\* C36: after every run of the resolver the outputs agree with its result:
\* with the status success task_public_ip is the resolved address and
\* service_url is http://<address>:1337; with any other status both are
\* their "not available yet" texts; and service_url is never a URL whose host
\* is empty.
C36_OutputsFollowResult ==
  Exited =>
    /\ IF rsOut.status = "success"
       THEN /\ outputs.task_public_ip = PUBLIC_IP
            /\ outputs.service_url = <<"http://", PUBLIC_IP, ":1337">>
       ELSE /\ outputs.task_public_ip = IpNotAvailable
            /\ outputs.service_url = UrlNotAvailable
    /\ outputs.service_url # <<"http://", "", ":1337">>

\* a later run of the resolver resolved the address and the outputs carry it
C36_Witness ==
  /\ Exited
  /\ polls >= 2
  /\ rsOut.status = "success"
  /\ outputs.service_url = <<"http://", "198.51.100.7", ":1337">>

\* ---- C34: uncommitted changes
\* C34: if tracked files are modified when create-demo-prs starts, the script
\* never fetches, never creates, deletes or pushes a branch and leaves the
\* checked-out branch as it is; and, unless a signal ends it first, it exits
\* with a non-zero code.
C34_DirtyLeavesUntouched ==
  dirty =>
    /\ gitLog = <<>>
    /\ refs = refs0
    /\ branch = CURRENT_BRANCH
    /\ (demoPc = "ended" /\ ~signalled) => demoExit # 0

\* the script was started with modified files and has ended at its check
C34_Witness ==
  /\ dirty
  /\ demoPc = "ended"
  /\ ~signalled
  /\ demoExit = 1

\* ---- C35: the base of the passing branch
\* C35: once the script has created demo/pr-passing, the branch contains the
\* commits of CURRENT_BRANCH and not the failing-test commit, and the
\* expected title in its test file is that of the base branch.
C35_PassingFromBase ==
  (\E i \in DOMAIN gitLog : gitLog[i] = Git("checkout -b", PASSING_BRANCH)
     /\ refs[PASSING_BRANCH] # {}) =>
    /\ refs[CURRENT_BRANCH] \subseteq refs[PASSING_BRANCH]
    /\ Commit(FAILING_BRANCH) \notin refs[PASSING_BRANCH]
    /\ Assertion(refs[PASSING_BRANCH]) = Assertion(refs[CURRENT_BRANCH])

\* both branches exist with their commits, the failing one with the wrong title
C35_Witness ==
  /\ demoPc = "pushing"
  /\ Commit(FAILING_BRANCH) \in refs[FAILING_BRANCH]
  /\ Commit(PASSING_BRANCH) \in refs[PASSING_BRANCH]
  /\ Assertion(refs[FAILING_BRANCH]) = "Wrong Title"
  /\ Assertion(refs[PASSING_BRANCH]) = "Test Article"

\* ---- C31: the credentials of the beforeAll hooks
\* C31: in every suite no request is sent with an unassigned token, the
\* request that creates the API token carries the admin token of the login,
\* and after beforeAll apiToken is the access key the creation returned, if
\* it succeeded and returned one, and the admin token otherwise.
C31_AssignedCredentials ==
  /\ \A i \in DOMAIN baSent :
       /\ baSent[i].bearer # Unassigned
       /\ baSent[i].to = "api-tokens" => baSent[i].bearer = authToken
  /\ baPc = "done" =>
       LET keys == {tokenResponse.data_accessKey, tokenResponse.accessKey} \ {""}
       IN IF Ok(tokenResponse.status) /\ keys # {}
          THEN apiToken \in keys
          ELSE apiToken = authToken

\* ---- C32: the values written into terraform.tfvars
\* C32: in the terraform.tfvars that test-terraform-local.sh generates, each
\* of the five secret variables holds the one value that generate-secrets
\* printed under the key of the same name.
C32_OneValuePerKey ==
  tfvarsFile # NoFile /\ generated # <<>> =>
    \A v \in DOMAIN VarOfKey :
      \A i \in DOMAIN generated :
        generated[i].key = VarOfKey[v] => tfvarsFile[v] = <<generated[i].value>>

====
